---- MODULE Spec2Model ----
(***************************************************************************)
(* EEG Paradox EDF -> WinEEG converter.                                    *)
(*                                                                         *)
(* Part 1: the template-based frame compositor of converter_core.py        *)
(* (UniversalConverter and convert_edf_to_wineeg) over a small file        *)
(* system.  Part 2: the EDF header reader of edf_to_eeg_converter.py.      *)
(*                                                                         *)
(* File contents are byte strings.  A byte string is kept as a sequence of *)
(* extents, one per chunk that was written:                                *)
(*   [kind |-> "pat", seed, len]  input data, byte j is Pat(seed, j)       *)
(*   [kind |-> "lit", bytes]      explicit bytes                           *)
(*   [kind |-> "i16", arr]        the little-endian bytes of an int16 array*)
(* An int16 array is [buf, off, n, over]: n elements viewed over the bytes *)
(* of buf from byte offset off (numpy.frombuffer), except the elements     *)
(* whose index is in DOMAIN over, which have been assigned.  Byte and      *)
(* element offsets count from 0, as in the source.                         *)
(***************************************************************************)
EXTENDS Integers, Sequences, FiniteSets, TLC

VARIABLES fs, last, prev, calls, edf_file, hdr, ret, tasks

vars == <<fs, last, prev, calls, edf_file, hdr, ret, tasks>>

Min(a, b) == IF a < b THEN a ELSE b
Max(a, b) == IF a > b THEN a ELSE b

(***************************************************************************)
(* Program constants (converter_core.py).                                  *)
(***************************************************************************)
HEADER == 1024
TRAILER == 34
CH == 19
BPS == 2
FRAME == CH * BPS
HEAD_FRAMES == 1250
TAIL_FRAMES == 250
NEW_CALIBRATION_VALUE == 1
SAMPLE_RATE == 250
SHORT_MINUTES == 12
NAME_CAP == 31
NAME_FIELD == 32

\* (mutant) the last EEG channel is taken for a marker channel
CALIBRATION_OFFSETS_16 ==
    [c \in 0..18 |-> [offset |-> 806 + c, is_marker |-> (c = 0 \/ c >= 17)]]

\* channel index -> (header byte offset, is_marker); 0x0326 = 806
CALIBRATION_OFFSETS ==
    [c \in 0..18 |-> [offset |-> 806 + c, is_marker |-> (c = 0 \/ c = 18)]]

\* (mutant) a fifth slot lies over the calibration bytes (0x0320)
patient_locations_over ==
    << [offset |-> 128, length |-> 32], [offset |-> 160, length |-> 32],
       [offset |-> 192, length |-> 32], [offset |-> 320, length |-> 32],
       [offset |-> 800, length |-> 32] >>

\* (mutant) the slot at 0x0140 is missing
patient_locations_three ==
    << [offset |-> 128, length |-> 32], [offset |-> 160, length |-> 32],
       [offset |-> 192, length |-> 32] >>

\* (offset, length) of the patient-name slots: 0x0080, 0x00A0, 0x00C0, 0x0140
patient_locations ==
    << [offset |-> 128, length |-> 32], [offset |-> 160, length |-> 32],
       [offset |-> 192, length |-> 32], [offset |-> 320, length |-> 32] >>

PRESERVE == {0, 18}
\* (mutant) the last marker channel is not preserved
eeg_ch_all_but_first == {c \in 0..(CH - 1) : c # 0}

eeg_ch == {c \in 0..(CH - 1) : c \notin PRESERVE}

(***************************************************************************)
(* Bounds of the model.                                                    *)
(***************************************************************************)
MaxCalls == 2
\* the large templates hold HEAD_FRAMES + TAIL_FRAMES + MaxWindow frames
MaxWindow == 2

(***************************************************************************)
(* Byte strings.                                                           *)
(***************************************************************************)
\* byte i of the input pattern with the given seed
Pat(seed, i) == (3 * i + 101 * seed + (i \div 38)) % 256

\* '<i2': two bytes, little-endian, two's complement
I16(lo, hi) == LET u == lo + 256 * hi IN IF u >= 32768 THEN u - 65536 ELSE u
Lo(v) == (v % 65536) % 256
Hi(v) == (v % 65536) \div 256

RECURSIVE BytesLen(_)
ExtLen(e) ==
    CASE e.kind = "pat" -> e.len
      [] e.kind = "lit" -> Len(e.bytes)
      [] e.kind = "i16" -> 2 * e.arr.n
BytesLen(c) == IF c = <<>> THEN 0 ELSE ExtLen(Head(c)) + BytesLen(Tail(c))

RECURSIVE ByteAt(_, _), Elem(_, _)
\* byte i (0 <= i < BytesLen(c)) of byte string c
ByteAt(c, i) ==
    LET e == Head(c) IN
    IF i >= ExtLen(e) THEN ByteAt(Tail(c), i - ExtLen(e))
    ELSE CASE e.kind = "pat" -> Pat(e.seed, i)
           [] e.kind = "lit" -> e.bytes[i + 1]
           [] e.kind = "i16" ->
                IF i % 2 = 0 THEN Lo(Elem(e.arr, i \div 2)) ELSE Hi(Elem(e.arr, i \div 2))
\* element k (0 <= k < a.n) of int16 array a
Elem(a, k) ==
    IF k \in DOMAIN a.over THEN a.over[k]
    ELSE I16(ByteAt(a.buf, a.off + 2 * k), ByteAt(a.buf, a.off + 2 * k + 1))

\* b[lo:hi] as explicit bytes, 0 <= lo <= hi <= BytesLen(b)
Explicit(b, lo, hi) == [j \in 1..(hi - lo) |-> ByteAt(b, lo + j - 1)]

PatBytes(seed, len) == << [kind |-> "pat", seed |-> seed, len |-> len] >>
LitBytes(bytes) == << [kind |-> "lit", bytes |-> bytes] >>

\* numpy.frombuffer(b[off : off + 2 n], dtype='<i2')
FromBuffer(b, off, n) == [buf |-> b, off |-> off, n |-> n, over |-> <<>>]

\* Python slice bound: a negative bound counts from the end, then clipped to 0..n
SliceBound(a, n) == IF a < 0 THEN Max(a + n, 0) ELSE Min(a, n)

(***************************************************************************)
(* The file system.                                                        *)
(***************************************************************************)
ORIGINAL_TEMPLATE == <<"t", "/", "L", "B", "_", "E", "O", ".", "E", "E", "G">>
EXTENDED_TEMPLATE == <<"t", "/", "L", "B", "_", "3", "0", ".", "E", "E", "G">>
TemplatePaths == {ORIGINAL_TEMPLATE, EXTENDED_TEMPLATE}
RawPath == <<"r", ".", "b", "i", "n">>
\* output paths a caller may give: lower-case .eeg, upper-case .EEG
OutLower == <<"a", ".", "e", "e", "g">>
OutUpper == <<"B", ".", "E", "E", "G">>
OutPaths == {OutLower, OutUpper}

\* s.startswith(old)
StartsWith(s, old) == Len(s) >= Len(old) /\ SubSeq(s, 1, Len(old)) = old

RECURSIVE Replace(_, _, _)
\* str.replace(old, new): every occurrence, left to right, case-sensitive
Replace(s, old, new) ==
    IF s = <<>> THEN <<>>
    ELSE IF StartsWith(s, old)
         THEN new \o Replace(SubSeq(s, Len(old) + 1, Len(s)), old, new)
         ELSE <<Head(s)>> \o Replace(Tail(s), old, new)

\* output_file.replace('.eeg', '_temp_raw.bin')
TempPath(output_file) ==
    Replace(output_file, <<".", "e", "e", "g">>,
            <<"_", "t", "e", "m", "p", "_", "r", "a", "w", ".", "b", "i", "n">>)

Paths == TemplatePaths \cup {RawPath} \cup OutPaths \cup {TempPath(p) : p \in OutPaths}

NoFile == [exists |-> FALSE, data |-> <<>>]
File(c) == [exists |-> TRUE, data |-> c]

\* open(path, 'wb'); f.write(chunk) for each chunk: the file is truncated, then
\* holds the chunks in order
\* (mutant) the file is opened for appending
WriteFileAppend(fsys, path, chunks) ==
    [fsys EXCEPT ![path] = File(fsys[path].data \o chunks)]

WriteFile(fsys, path, chunks) == [fsys EXCEPT ![path] = File(chunks)]

\* os.remove(path)
RemoveFile(fsys, path) == [fsys EXCEPT ![path] = NoFile]

(***************************************************************************)
(* UniversalConverter.                                                     *)
(***************************************************************************)
\* edf_frames / 250 / 60 <= 12, on integers (180000 / 250 / 60 is exactly 12.0)
ShortEnough(edf_frames) == edf_frames <= SHORT_MINUTES * 60 * SAMPLE_RATE

\* (mutant) no fall-back to the other template
choose_template_strict(fsys, edf_frames) ==
    LET want == IF ShortEnough(edf_frames) THEN ORIGINAL_TEMPLATE ELSE EXTENDED_TEMPLATE
    IN IF fsys[want].exists
       THEN [error |-> "none", path |-> want, advice |-> {}]
       ELSE [error |-> "no_template", path |-> <<>>, advice |-> {}]

choose_template(fsys, edf_frames) ==
    IF ShortEnough(edf_frames) /\ fsys[ORIGINAL_TEMPLATE].exists
    THEN [error |-> "none", path |-> ORIGINAL_TEMPLATE, advice |-> {}]
    ELSE IF fsys[EXTENDED_TEMPLATE].exists
    THEN [error |-> "none", path |-> EXTENDED_TEMPLATE, advice |-> {}]
    ELSE IF fsys[ORIGINAL_TEMPLATE].exists
    THEN [error |-> "none", path |-> ORIGINAL_TEMPLATE, advice |-> {"will_truncate"}]
    ELSE [error |-> "no_template", path |-> <<>>, advice |-> {}]

\* patient_name.encode('ascii', errors='ignore')[:31], null-padded to 32
\* (b'\x00' * k is empty for k <= 0)
\* (mutant) the [:31] cap is missing
patient_bytes_uncapped(patient_name) ==
    LET ascii == SelectSeq(patient_name, LAMBDA c : c < 128)
    IN ascii \o [j \in 1..Max(NAME_FIELD - Len(ascii), 0) |-> 0]

patient_bytes(patient_name) ==
    LET ascii == SelectSeq(patient_name, LAMBDA c : c < 128)
        capped == SubSeq(ascii, 1, Min(Len(ascii), NAME_CAP))
    IN capped \o [j \in 1..Max(NAME_FIELD - Len(capped), 0) |-> 0]

\* header[offset:offset+length] = value on a bytearray (the slice is replaced,
\* whatever the length of value)
SetSlice(header, offset, length, value) ==
    SubSeq(header, 1, offset) \o value \o SubSeq(header, offset + length + 1, Len(header))

RECURSIVE PatchSlots(_, _, _)
PatchSlots(header, locs, pb) ==
    IF locs = <<>> THEN header
    ELSE LET l == Head(locs)
             h == IF l.offset + l.length <= Len(header)
                  THEN SetSlice(header, l.offset, l.length, pb) ELSE header
         IN PatchSlots(h, Tail(locs), pb)

patch_patient_info(header_bytes, patient_name) ==
    PatchSlots(header_bytes, patient_locations, patient_bytes(patient_name))

RECURSIVE PatchCal(_, _, _)
\* for ch, (offset, is_marker) in CALIBRATION_OFFSETS.items(), from channel c on
PatchCal(header, c, keep_markers) ==
    IF c \notin DOMAIN CALIBRATION_OFFSETS THEN header
    ELSE LET o == CALIBRATION_OFFSETS[c]
             h == IF o.offset < Len(header) /\ ~(keep_markers /\ o.is_marker)
                  THEN [header EXCEPT ![o.offset + 1] = NEW_CALIBRATION_VALUE]
                  ELSE header
         IN PatchCal(h, c + 1, keep_markers)

\* (mutant) the marker flag is ignored
patch_calibration_bytes_all(header_bytes) == PatchCal(header_bytes, 0, FALSE)

patch_calibration_bytes(header_bytes) == PatchCal(header_bytes, 0, TRUE)

\* (mutant) the source samples are taken one channel lower
SpliceShifted(out, tpl_frames, edf, edf_frames, start, end, frames_to_use) ==
    LET lo == SliceBound(start, tpl_frames)
        hi == SliceBound(end, tpl_frames)
        k  == Max(hi - lo, 0)
        m  == SliceBound(frames_to_use, edf_frames)
    IN IF m # k /\ m # 1 THEN [error |-> "splice_shape", out |-> out]
       ELSE [error |-> "none",
             out |-> [out EXCEPT !.over =
                        [idx \in {(lo + i) * CH + c : i \in 0..(k - 1), c \in eeg_ch} |->
                            LET i == (idx \div CH) - lo
                                c == idx % CH
                            IN Elem(edf, (IF m = 1 THEN 0 ELSE i) * CH + c - 1)]]]

\* out[start:end, eeg_ch] = edf_frames19[:frames_to_use, eeg_ch]
\* numpy: the target has k frames and the value m frames (Python slice
\* semantics); the value must broadcast to the target: m = k, or m = 1.
Splice(out, tpl_frames, edf, edf_frames, start, end, frames_to_use) ==
    LET lo == SliceBound(start, tpl_frames)
        hi == SliceBound(end, tpl_frames)
        k  == Max(hi - lo, 0)
        m  == SliceBound(frames_to_use, edf_frames)
    IN IF m # k /\ m # 1 THEN [error |-> "splice_shape", out |-> out]
       ELSE [error |-> "none",
             out |-> [out EXCEPT !.over =
                        [idx \in {(lo + i) * CH + c : i \in 0..(k - 1), c \in eeg_ch} |->
                            LET i == (idx \div CH) - lo
                                c == idx % CH
                            IN Elem(edf, (IF m = 1 THEN 0 ELSE i) * CH + c)]]]

NoChoice == [called |-> FALSE, edf_frames |-> 0, error |-> "none", path |-> <<>>,
             advice |-> {}]

\* a conversion that raised before anything was composed
Abort(err, choice) ==
    [error |-> err, choice |-> choice, tpl |-> <<>>, advice |-> {},
     tpl_frames |-> 0, start |-> 0, end |-> 0, frames_to_use |-> 0, chunks |-> <<>>]

\* The steps of convert_raw_to_eeg, last step first.  Each step is handed
\* what the steps before it computed.

\* the size check that precedes the write, and the three chunks to write
Reassemble(choice, tpl, tpl_frames, w, advice, patched_header, trailer, spliced) ==
    IF spliced.error # "none" THEN Abort(spliced.error, choice)
    ELSE [error |-> IF HEADER + BPS * spliced.out.n + TRAILER # BytesLen(tpl)
                    THEN "size_mismatch" ELSE "none",
          choice |-> choice, tpl |-> tpl, advice |-> advice,
          tpl_frames |-> tpl_frames, start |-> w.start, end |-> w.end,
          frames_to_use |-> w.frames_to_use,
          chunks |-> LitBytes(patched_header)
                     \o << [kind |-> "i16", arr |-> spliced.out] >>
                     \o LitBytes(trailer)]

\* patch the header, splice the payload
PatchAndSplice(raw_data, patient_name, choice, tpl, tpl_frames, edf_frames, w) ==
    Reassemble(choice, tpl, tpl_frames, w,
               choice.advice \cup
                  (IF w.frames_to_use < edf_frames THEN {"truncated"} ELSE {}),
               patch_calibration_bytes(
                  patch_patient_info(Explicit(tpl, 0, HEADER), patient_name)),
               Explicit(tpl, BytesLen(tpl) - TRAILER, BytesLen(tpl)),
               Splice(FromBuffer(tpl, HEADER, tpl_frames * CH), tpl_frames,
                      [raw_data EXCEPT !.n = edf_frames * CH], edf_frames,
                      w.start, w.end, w.frames_to_use))

\* the replacement window
Window(tpl_frames, edf_frames) ==
    LET usable_tpl == tpl_frames - HEAD_FRAMES - TAIL_FRAMES
        frames_to_use == Min(usable_tpl, edf_frames)
        start == HEAD_FRAMES
    IN [start |-> start, end |-> start + frames_to_use, frames_to_use |-> frames_to_use]

\* the template checks; tlen is len(tpl)
SplitTemplate(raw_data, patient_name, choice, tpl, tlen) ==
    IF tlen < HEADER + TRAILER THEN Abort("template_small", choice)
    ELSE IF (tlen - HEADER - TRAILER) % FRAME # 0
    THEN Abort("payload_misaligned", choice)
    ELSE PatchAndSplice(raw_data, patient_name, choice, tpl,
                        (tlen - HEADER - TRAILER) \div FRAME, raw_data.n \div CH,
                        Window((tlen - HEADER - TRAILER) \div FRAME, raw_data.n \div CH))

ReadTemplate(fsys, raw_data, patient_name, choice) ==
    IF choice.error # "none" THEN Abort(choice.error, choice)
    ELSE SplitTemplate(raw_data, patient_name, choice, fsys[choice.path].data,
                       BytesLen(fsys[choice.path].data))

\* edf_frames = len(raw_data) // CH, then the choice of the template
SelectTemplate(fsys, raw_data, patient_name) ==
    ReadTemplate(fsys, raw_data, patient_name,
                 [called |-> TRUE, edf_frames |-> raw_data.n \div CH]
                     @@ choose_template(fsys, raw_data.n \div CH))

\* read_int16: numpy.frombuffer raises unless the buffer size is a multiple
\* of the element size
Analyze(fsys, raw_bytes, patient_name) ==
    IF BytesLen(raw_bytes) % BPS # 0 THEN Abort("raw_odd", NoChoice)
    ELSE SelectTemplate(fsys, FromBuffer(raw_bytes, 0, BytesLen(raw_bytes) \div BPS),
                        patient_name)

\* convert_raw_to_eeg up to the size check: everything that is computed in
\* memory before the output file is opened
Compose(fsys, raw_file, patient_name) ==
    IF ~fsys[raw_file].exists THEN Abort("raw_missing", NoChoice)
    ELSE Analyze(fsys, fsys[raw_file].data, patient_name)

\* what a call reports: result "ok" is `return True`, any other result is the
\* exception raised
Outcome(fsys, writes, plan) ==
    [fs |-> fsys, writes |-> writes,
     result |-> IF plan.error = "none" THEN "ok" ELSE plan.error,
     returned |-> plan.error = "none",
     choice |-> plan.choice, tpl |-> plan.tpl, advice |-> plan.advice,
     tpl_frames |-> plan.tpl_frames, start |-> plan.start, end |-> plan.end,
     frames_to_use |-> plan.frames_to_use]

\* (mutant) the output file is opened before the checks have passed
WriteOutputEarly(fsys, output_file, plan) ==
    IF plan.error # "none"
    THEN Outcome(WriteFile(fsys, output_file, <<>>), <<output_file>>, plan)
    ELSE Outcome(WriteFile(fsys, output_file, plan.chunks), <<output_file>>, plan)

\* (mutant) the chosen template is patched in place
WriteOutputInPlace(fsys, output_file, plan) ==
    IF plan.error # "none" THEN Outcome(fsys, <<>>, plan)
    ELSE Outcome(WriteFile(fsys, plan.choice.path, plan.chunks),
                 <<plan.choice.path>>, plan)

\* the end of convert_raw_to_eeg: an error raised so far leaves the file
\* system alone; otherwise the output file is opened and written
WriteOutput(fsys, output_file, plan) ==
    IF plan.error # "none" THEN Outcome(fsys, <<>>, plan)
    ELSE Outcome(WriteFile(fsys, output_file, plan.chunks), <<output_file>>, plan)

convert_raw_to_eeg(fsys, raw_file, output_file, patient_name) ==
    WriteOutput(fsys, output_file, Compose(fsys, raw_file, patient_name))

(***************************************************************************)
(* convert_edf_to_wineeg.  The decoding of the EDF file is done by the     *)
(* biosignal toolkit (mne); what it returns is an input:                   *)
(*   [ok, n_ch, n_times, seed]  ok = FALSE when the import or the read     *)
(* raises; otherwise an array of n_ch channels by n_times samples.         *)
(***************************************************************************)
\* raw.get_data()[c, t], in units of 1e-14 V
Volts14(d, c, t) == (c - 9) * 40000 + t * 37 + d.seed

\* (x * 1e6) * 10_000_000, clipped to the int16 range, then astype(np.int16),
\* which truncates toward zero; x is v * 1e-14, the scaled value v / 10
ScaleClipCast(v) ==
    IF v >= 327670 THEN 32767
    ELSE IF v <= -327680 THEN -32768
    ELSE IF v >= 0 THEN v \div 10 ELSE -((-v) \div 10)

\* the array written to the temporary file.  n_samples, n_channels =
\* data_int16.shape names the channel count n_samples and the sample count
\* n_channels; block `sample` of the array holds data_int16[sample, :]
Interleaved(d) ==
    LET n_samples == d.n_ch
        n_channels == d.n_times
    IN [buf |-> <<>>, off |-> 0, n |-> n_samples * n_channels,
        over |-> [k \in 0..(n_samples * n_channels - 1) |->
                     ScaleClipCast(Volts14(d, k \div n_channels, k % n_channels))]]

EdfFailed(fsys) == Outcome(fsys, <<>>, Abort("edf_error", NoChoice))

\* after convert_raw_to_eeg: an exception skips the cleanup and makes the
\* function return False; otherwise the temporary file is removed
Cleanup(temp_file, r) ==
    IF r.result # "ok"
    THEN [r EXCEPT !.writes = <<temp_file>>, !.returned = FALSE]
    ELSE [r EXCEPT !.fs = IF r.fs[temp_file].exists
                          THEN RemoveFile(r.fs, temp_file) ELSE r.fs,
                   !.writes = <<temp_file>> \o r.writes,
                   !.returned = TRUE]

\* (mutant) the number of channels is not checked
convert_edf_to_wineeg_unchecked(fsys, d, output_file, patient_name) ==
    IF ~d.ok THEN EdfFailed(fsys)
    ELSE Cleanup(TempPath(output_file),
                 convert_raw_to_eeg(
                     WriteFile(fsys, TempPath(output_file),
                               << [kind |-> "i16", arr |-> Interleaved(d)] >>),
                     TempPath(output_file), output_file, patient_name))

convert_edf_to_wineeg(fsys, d, output_file, patient_name) ==
    IF ~d.ok THEN EdfFailed(fsys)
    ELSE IF d.n_ch # 19 THEN EdfFailed(fsys)
    ELSE Cleanup(TempPath(output_file),
                 convert_raw_to_eeg(
                     WriteFile(fsys, TempPath(output_file),
                               << [kind |-> "i16", arr |-> Interleaved(d)] >>),
                     TempPath(output_file), output_file, patient_name))

(***************************************************************************)
(* Part 2: EDFHeader (edf_to_eeg_converter.py).  The header file is a      *)
(* plain sequence of byte values; a str is the sequence of its code        *)
(* points.  An attribute that holds None is <<>>, one that holds v is      *)
(* <<v>>.  A float is the exact fraction num / den.                        *)
(***************************************************************************)
PREAMBLE_BYTES == 256
MAX_SIGNALS == 512
STANDARD_HEADER_LENGTH == 256

None == <<>>
Some(v) == <<v>>

RECURSIVE Concat(_)
\* the concatenation of a sequence of sequences
Concat(g) ==
    IF Len(g) = 0 THEN <<>>
    ELSE IF Len(g) = 1 THEN g[1]
    ELSE Concat(SubSeq(g, 1, Len(g) \div 2))
            \o Concat(SubSeq(g, Len(g) \div 2 + 1, Len(g)))

\* bytes.decode("ascii", "ignore")
Decode(b) == SelectSeq(b, LAMBDA x : x < 128)

IsSpace(x) == x \in {9, 10, 11, 12, 13, 28, 29, 30, 31, 32}

\* str.strip()
Strip(s) ==
    LET keep == {i \in 1..Len(s) : ~IsSpace(s[i])}
    IN IF keep = {} THEN <<>>
       ELSE SubSeq(s, CHOOSE i \in keep : \A j \in keep : i <= j,
                      CHOOSE i \in keep : \A j \in keep : i >= j)

\* b[lo:hi] with 0 <= lo <= hi: the bounds are clipped to len(b)
Slice(b, lo, hi) == SubSeq(b, Min(lo, Len(b)) + 1, Min(hi, Len(b)))

\* b[lo:hi].decode("ascii", "ignore").strip()
FieldText(b, lo, hi) == Strip(Decode(Slice(b, lo, hi)))

\* text or default
OrDefault(text, default) == IF text = <<>> THEN default ELSE text

IsDigit(x) == x \in 48..57

\* decimal digits, with single underscores allowed between digits
IsDigitRun(s) ==
    /\ Len(s) > 0
    /\ IsDigit(s[1])
    /\ IsDigit(s[Len(s)])
    /\ \A i \in 1..Len(s) : IsDigit(s[i]) \/ s[i] = 95
    /\ \A i \in 1..(Len(s) - 1) : ~(s[i] = 95 /\ s[i + 1] = 95)

RECURSIVE DigitsValue(_)
DigitsValue(s) ==
    IF Len(s) = 0 THEN 0
    ELSE IF s[Len(s)] = 95 THEN DigitsValue(SubSeq(s, 1, Len(s) - 1))
    ELSE 10 * DigitsValue(SubSeq(s, 1, Len(s) - 1)) + (s[Len(s)] - 48)

RECURSIVE Pow10(_)
Pow10(k) == IF k = 0 THEN 1 ELSE 10 * Pow10(k - 1)

\* the text after an optional sign
Unsigned(s) == IF Len(s) > 0 /\ s[1] \in {43, 45} THEN Tail(s) ELSE s
Signed(s, v) == IF Len(s) > 0 /\ s[1] = 45 THEN -v ELSE v

\* int(s); ok = FALSE is ValueError
ParseInt(s) ==
    IF IsDigitRun(Unsigned(Strip(s)))
    THEN [ok |-> TRUE, val |-> Signed(Strip(s), DigitsValue(Unsigned(Strip(s))))]
    ELSE [ok |-> FALSE, val |-> 0]

FloatOfInt(n) == [ok |-> TRUE, num |-> n, den |-> 1]
NotAFloat == [ok |-> FALSE, num |-> 0, den |-> 1]

\* the decimal u = int_part . frac_part, dot at position p
ParseDecimal(s, u, p) ==
    IF /\ SubSeq(u, 1, p - 1) = <<>> \/ IsDigitRun(SubSeq(u, 1, p - 1))
       /\ SubSeq(u, p + 1, Len(u)) = <<>> \/ IsDigitRun(SubSeq(u, p + 1, Len(u)))
       /\ Len(u) > 1
    THEN [ok |-> TRUE,
          num |-> Signed(s, DigitsValue(SubSeq(u, 1, p - 1) \o SubSeq(u, p + 1, Len(u)))),
          den |-> Pow10(Len(SelectSeq(SubSeq(u, p + 1, Len(u)), IsDigit)))]
    ELSE NotAFloat

\* float(s) for the decimal spellings [sign] digits [. [digits]] and
\* [sign] . digits; ok = FALSE is ValueError.  The header files of the model
\* hold no exponent letter and no spelling of inf or nan.
ParseFloat(s) ==
    IF \A i \in 1..Len(Strip(s)) : Strip(s)[i] # 46
    THEN (IF IsDigitRun(Unsigned(Strip(s)))
          THEN FloatOfInt(Signed(Strip(s), DigitsValue(Unsigned(Strip(s)))))
          ELSE NotAFloat)
    ELSE ParseDecimal(Strip(s), Unsigned(Strip(s)),
                      CHOOSE p \in 1..Len(Unsigned(Strip(s))) :
                          /\ Unsigned(Strip(s))[p] = 46
                          /\ \A q \in 1..(p - 1) : Unsigned(Strip(s))[q] # 46)

\* a >= b on floats
FloatGe(a, b) == a.num * b.den >= b.num * a.den

\* EDFHeader.__init__; fs_per_channel is not an attribute until read sets it
EDFHeader ==
    [n_signals |-> None, n_records |-> None, duration_record_s |-> None,
     labels |-> <<>>, transducer |-> <<>>, phys_dim |-> <<>>,
     phys_min |-> <<>>, phys_max |-> <<>>, dig_min |-> <<>>, dig_max |-> <<>>,
     prefilt |-> <<>>, samples_per_record |-> <<>>, fs_per_channel |-> None,
     header_bytes |-> None, valid |-> FALSE,
     validation_errors |-> <<>>, warnings |-> <<>>]

\* one entry of warnings: the message, the 1-based channel it names (0 when
\* it names none) and the text it quotes
Warn(kind, ch, detail) == [kind |-> kind, ch |-> ch, detail |-> detail]
WarnIf(cond, kind, ch, detail) == IF cond THEN << Warn(kind, ch, detail) >> ELSE <<>>

ZeroDate == <<48, 48, 46, 48, 48, 46, 48, 48>>

\* _validate_header_structure, the checks before the header length
StructureHead(head0) ==
    WarnIf(FieldText(head0, 0, 8) = <<>> \/ FieldText(head0, 0, 8)[1] # 48,
           "Non-standard EDF identifier", 0, FieldText(head0, 0, 8))
    \o WarnIf(FieldText(head0, 8, 88) = <<>>, "Empty patient ID field", 0, <<>>)
    \o WarnIf(FieldText(head0, 88, 168) = <<>>, "Empty recording info field", 0, <<>>)
    \o WarnIf(FieldText(head0, 168, 176) \in {<<>>, ZeroDate},
              "Invalid or missing start date", 0, <<>>)
    \o WarnIf(FieldText(head0, 176, 184) \in {<<>>, ZeroDate},
              "Invalid or missing start time", 0, <<>>)

\* _validate_header_structure, the checks after the header length
StructureTail(head0) ==
    WarnIf(FieldText(head0, 192, 236) = <<>>, "Empty data format field", 0, <<>>)
    \o WarnIf(FieldText(head0, 236, 244) \in {<<>>, <<48>>},
              "Invalid number of data records", 0, <<>>)
    \o WarnIf(FieldText(head0, 244, 252) \in {<<>>, <<48>>},
              "Invalid duration of data record", 0, <<>>)

\* the header length check; a ValueError of int() ends the validation
StructureLength(head0, header_bytes) ==
    IF ~header_bytes.ok
    THEN << Warn("Header structure validation error", 0, <<>>) >>
    ELSE WarnIf(header_bytes.val # STANDARD_HEADER_LENGTH,
                "Non-standard header length", 0, FieldText(head0, 184, 192))
         \o StructureTail(head0)

\* the warnings _validate_header_structure appends
validate_header_structure(head0) ==
    StructureHead(head0)
    \o StructureLength(head0, ParseInt(OrDefault(FieldText(head0, 184, 192), <<48>>)))

\* `float(t) if t.strip() else 0` and `int(t) if t.strip() else 0`
FloatOr0(t) == IF Strip(t) = <<>> THEN FloatOfInt(0) ELSE ParseFloat(t)
IntOr0(t) == IF Strip(t) = <<>> THEN [ok |-> TRUE, val |-> 0] ELSE ParseInt(t)

\* the three inner try blocks of _validate_channel_data, on parsed values
PhysicalRange(ch, pmin, pmax) ==
    IF ~pmin.ok \/ ~pmax.ok
    THEN << Warn("Invalid physical range values", ch, <<>>) >>
    ELSE WarnIf(FloatGe(pmin, pmax), "Physical min >= max", ch, <<>>)

DigitalRange(ch, dmin, dmax) ==
    IF ~dmin.ok \/ ~dmax.ok
    THEN << Warn("Invalid digital range values", ch, <<>>) >>
    ELSE WarnIf(dmin.val >= dmax.val, "Digital min >= max", ch, <<>>)

SamplesCheck(ch, samp) ==
    IF ~samp.ok
    THEN << Warn("Invalid samples per record value", ch, <<>>) >>
    ELSE WarnIf(samp.val <= 0, "Invalid samples per record", ch, <<>>)

\* the warnings _validate_channel_data appends for channel ch_idx
validate_channel_data(ch_idx, label, phys_min, phys_max, dig_min, dig_max, samples) ==
    WarnIf(Strip(label) = <<>>, "Empty or missing label", ch_idx + 1, <<>>)
    \o PhysicalRange(ch_idx + 1, FloatOr0(phys_min), FloatOr0(phys_max))
    \o DigitalRange(ch_idx + 1, IntOr0(dig_min), IntOr0(dig_max))
    \o SamplesCheck(ch_idx + 1, IntOr0(samples))

\* raw[i*w:(i+1)*w].decode("ascii", "ignore").strip()
ChannelText(raw, i, w) == FieldText(raw, i * w, (i + 1) * w)

ChannelWarnings(raws, i) ==
    validate_channel_data(i, ChannelText(raws.labels, i, 16),
                          ChannelText(raws.phys_min, i, 8),
                          ChannelText(raws.phys_max, i, 8),
                          ChannelText(raws.dig_min, i, 8),
                          ChannelText(raws.dig_max, i, 8),
                          ChannelText(raws.samples, i, 8))

\* `int(samples) if samples.strip() else 0` raises ValueError for channel i
SamplesRaise(raws, i) == ~IntOr0(ChannelText(raws.samples, i, 8)).ok

\* the iterations of the loop of _parse_channel_fields that run to their
\* end: the loop is left at the first channel whose samples value raises
Completed(raws, n) ==
    IF \E i \in 0..(n - 1) : SamplesRaise(raws, i)
    THEN CHOOSE i \in 0..(n - 1) :
            SamplesRaise(raws, i) /\ \A j \in 0..(i - 1) : ~SamplesRaise(raws, j)
    ELSE n

\* the value stored for a channel whose iteration ran to its end
StoredSamples(raws, i) == IntOr0(ChannelText(raws.samples, i, 8)).val

\* the loop of _parse_channel_fields: `started` iterations appended the text
\* fields, `completed` of them the samples value as well
ParseLoop(h, raws, started, completed) ==
    [h EXCEPT
       !.warnings = @ \o Concat([k \in 1..started |-> ChannelWarnings(raws, k - 1)]),
       !.labels = @ \o [k \in 1..started |-> ChannelText(raws.labels, k - 1, 16)],
       !.transducer = @ \o [k \in 1..started |-> ChannelText(raws.transducer, k - 1, 80)],
       !.phys_dim = @ \o [k \in 1..started |-> ChannelText(raws.phys_dim, k - 1, 8)],
       !.phys_min = @ \o [k \in 1..started |-> ChannelText(raws.phys_min, k - 1, 8)],
       !.phys_max = @ \o [k \in 1..started |-> ChannelText(raws.phys_max, k - 1, 8)],
       !.dig_min = @ \o [k \in 1..started |-> ChannelText(raws.dig_min, k - 1, 8)],
       !.dig_max = @ \o [k \in 1..started |-> ChannelText(raws.dig_max, k - 1, 8)],
       !.prefilt = @ \o [k \in 1..started |-> ChannelText(raws.prefilt, k - 1, 80)],
       !.samples_per_record = @ \o [k \in 1..completed |-> StoredSamples(raws, k - 1)],
       !.validation_errors =
           IF completed < started
           THEN Append(@, [kind |-> "Channel field parsing error", cause |-> "ValueError"])
           ELSE @]

parse_channel_fields(h, raws) ==
    ParseLoop(h, raws, Min(Completed(raws, h.n_signals[1]) + 1, h.n_signals[1]),
              Completed(raws, h.n_signals[1]))

suspicious_names ==
    { <<>>, <<32>>, <<88>>, <<89>>, <<90>>,
      <<85, 78, 75, 78, 79, 87, 78>>, <<84, 69, 83, 84>> }

\* the warnings _validate_data_consistency appends
DifferentSamples(spr) ==
    Concat([k \in 1..Len(spr) |->
              WarnIf(spr[k] # spr[1], "different samples per record", k, <<>>)])

DuplicateLabels(labels) ==
    Concat([k \in 1..Len(labels) |->
              WarnIf(/\ Strip(labels[k]) # <<>>
                     /\ \A j \in 1..(k - 1) : labels[j] # labels[k]
                     /\ \E j \in (k + 1)..Len(labels) : labels[j] = labels[k],
                     "Duplicate channel label", 0, labels[k])])

SuspiciousLabels(labels) ==
    Concat([k \in 1..Len(labels) |->
              WarnIf(Strip(labels[k]) \in suspicious_names,
                     "Suspicious label", k, labels[k])])

validate_data_consistency(h) ==
    [h EXCEPT !.warnings = @ \o DifferentSamples(h.samples_per_record)
                             \o DuplicateLabels(h.labels)
                             \o SuspiciousLabels(h.labels)]

\* f.read(n) with the file position at pos
ReadAt(data, pos, n) == Slice(data, pos, pos + n)

\* the nine read_field calls for n channels
read_fields(data, n) ==
    [labels     |-> ReadAt(data, PREAMBLE_BYTES, 16 * n),
     transducer |-> ReadAt(data, PREAMBLE_BYTES + 16 * n, 80 * n),
     phys_dim   |-> ReadAt(data, PREAMBLE_BYTES + 96 * n, 8 * n),
     phys_min   |-> ReadAt(data, PREAMBLE_BYTES + 104 * n, 8 * n),
     phys_max   |-> ReadAt(data, PREAMBLE_BYTES + 112 * n, 8 * n),
     dig_min    |-> ReadAt(data, PREAMBLE_BYTES + 120 * n, 8 * n),
     dig_max    |-> ReadAt(data, PREAMBLE_BYTES + 128 * n, 8 * n),
     prefilt    |-> ReadAt(data, PREAMBLE_BYTES + 136 * n, 80 * n),
     samples    |-> ReadAt(data, PREAMBLE_BYTES + 216 * n, 8 * n)]

\* read leaves through its except clause: the error is recorded and raised again
Raise(h, cause) ==
    [hdr |-> [h EXCEPT !.validation_errors =
                          Append(@, [kind |-> "Header read error", cause |-> cause])],
     raised |-> TRUE]

Return(h) == [hdr |-> h, raised |-> FALSE]

\* fs = spr / duration_record_s if duration_record_s > 0 else 0.0
Rate(spr, dur) ==
    IF dur.num > 0 THEN [ok |-> TRUE, num |-> spr * dur.den, den |-> dur.num]
    ELSE FloatOfInt(0)

\* read, from the parsing of the record count and the record duration on
ReadTiming(h, n_records, dur_per_record) ==
    IF ~n_records.ok THEN Raise(h, "invalid literal for int()")
    ELSE IF ~dur_per_record.ok THEN Raise(h, "could not convert string to float")
    ELSE Return([h EXCEPT
                   !.n_records = Some(n_records.val),
                   !.duration_record_s = Some(dur_per_record),
                   !.fs_per_channel =
                       Some([k \in 1..Len(h.samples_per_record) |->
                               Rate(h.samples_per_record[k], dur_per_record)]),
                   !.header_bytes = Some(PREAMBLE_BYTES + h.n_signals[1] * 256),
                   !.valid = TRUE])

\* read, from the channel fields on
ReadChannels(h, head0, data) ==
    ReadTiming(validate_data_consistency(
                   parse_channel_fields(h, read_fields(data, h.n_signals[1]))),
               ParseInt(OrDefault(FieldText(head0, 236, 244), <<45, 49>>)),
               ParseFloat(OrDefault(FieldText(head0, 244, 252), <<48>>)))

\* (mutant) 512 channels are rejected too
NsInvalidStrict(n) == n <= 0 \/ n >= MAX_SIGNALS

NsInvalid(n) == n <= 0 \/ n > MAX_SIGNALS

\* read, from the channel count on; n_signals is assigned before it is checked
ReadCount(h, head0, data, ns) ==
    IF ~ns.ok THEN Raise(h, "invalid literal for int()")
    ELSE IF NsInvalid(ns.val)
    THEN Raise([h EXCEPT !.n_signals = Some(ns.val)], "EDF ns invalid")
    ELSE ReadChannels([h EXCEPT !.n_signals = Some(ns.val)], head0, data)

ReadPreamble(h, data, head0) ==
    IF Len(head0) < PREAMBLE_BYTES THEN Raise(h, "EDF header too short.")
    ELSE ReadCount([h EXCEPT !.warnings = @ \o validate_header_structure(head0)],
                   head0, data,
                   ParseInt(OrDefault(FieldText(head0, 252, 256), <<48>>)))

\* EDFHeader.read on the file at self.path
read(h, file) ==
    IF ~file.exists THEN Raise(h, "FileNotFoundError")
    ELSE ReadPreamble(h, file.data, ReadAt(file.data, 0, PREAMBLE_BYTES))

\* EDFHeader.total_samples_per_channel
total_samples_per_channel(h) ==
    IF ~h.valid THEN None
    ELSE Some([k \in 1..Len(h.samples_per_record) |->
                  h.n_records[1] * h.samples_per_record[k]])

RECURSIVE Gcd(_, _)
Gcd(a, b) == IF b = 0 THEN a ELSE Gcd(b, a % b)

\* the fraction in lowest terms
Lowest(f) ==
    [ok |-> TRUE,
     num |-> f.num \div Gcd(IF f.num < 0 THEN -f.num ELSE f.num, f.den),
     den |-> f.den \div Gcd(IF f.num < 0 THEN -f.num ELSE f.num, f.den)]

\* a = b on floats
FloatEq(a, b) == Lowest(a) = Lowest(b)

ROUND_DIGITS == 6

\* one more decimal digit of a long division by d
DivStep(p, d) == [quo |-> 10 * p.quo + (10 * p.rem) \div d, rem |-> (10 * p.rem) % d]

RECURSIVE LongDiv(_, _, _)
\* floor(n * 10^k / d) and the remainder left, for d > 0, digit by digit
LongDiv(n, d, k) ==
    IF k = 0 THEN [quo |-> n \div d, rem |-> n % d]
    ELSE DivStep(LongDiv(n, d, k - 1), d)

\* the integer nearest to quo + rem / d, a tie going to the even one
RoundHalfEven(p, d) ==
    IF 2 * p.rem < d THEN p.quo
    ELSE IF 2 * p.rem > d THEN p.quo + 1
    ELSE IF p.quo % 2 = 0 THEN p.quo
    ELSE p.quo + 1

\* round(fs, 6), in millionths
Micro(f) == RoundHalfEven(LongDiv(f.num, f.den, ROUND_DIGITS), f.den)

\* round(fs, 6)
Round6(f) == [ok |-> TRUE, num |-> Micro(f), den |-> Pow10(ROUND_DIGITS)]

\* Counter(rates)[rates[i]]
CountOf(rates, i) == Cardinality({j \in 1..Len(rates) : FloatEq(rates[j], rates[i])})

\* max(c.items(), key=lambda kv: kv[1])[0]: the first key, in the order the
\* keys were first seen, among those of the greatest count
ModeOf(rates) ==
    rates[CHOOSE i \in 1..Len(rates) :
             /\ \A j \in 1..Len(rates) : CountOf(rates, j) <= CountOf(rates, i)
             /\ \A j \in 1..(i - 1) : CountOf(rates, j) < CountOf(rates, i)]

\* common_fs on a valid header with the given fs_per_channel; max() of an
\* empty sequence raises ValueError
CommonOf(rates) ==
    IF \A i \in 1..Len(rates) : Micro(rates[i]) = Micro(rates[1])
    THEN (IF Len(rates) = 0
          THEN [raised |-> TRUE, value |-> None]
          ELSE [raised |-> FALSE, value |-> << Round6(rates[1]), TRUE >>])
    ELSE [raised |-> FALSE, value |-> << ModeOf(rates), FALSE >>]

\* EDFHeader.common_fs
common_fs(h) ==
    IF ~h.valid THEN [raised |-> FALSE, value |-> << None, FALSE >>]
    ELSE CommonOf(h.fs_per_channel[1])

(***************************************************************************)
(* Part 3: the validator (parse_vhdr and cross_checks of                   *)
(* edf_to_eeg_converter.py).  A dict is a function on the keys it holds.   *)
(* What ConfigParser has read from the sidecar is an input:                *)
(*   [common, binary, channels]  each None when its section is missing,    *)
(* else Some(the options of the section); the options of [Common Infos]    *)
(* and [Binary Infos] are a dict of texts, those of [Channel Infos] the    *)
(* sequence of its (key, value) lines.                                     *)
(***************************************************************************)
\* str.upper() on ASCII text
Upper(s) == [k \in 1..Len(s) |-> IF s[k] \in 97..122 THEN s[k] - 32 ELSE s[k]]

\* sub in s
Contains(s, sub) ==
    \E i \in 0..(Len(s) - Len(sub)) : SubSeq(s, i + 1, i + Len(sub)) = sub

\* d.get(key, default)
Get(d, key, default) == IF key \in DOMAIN d THEN d[key] ELSE default

\* v.split(",")[0].strip()
FirstPart(v) ==
    IF \A i \in 1..Len(v) : v[i] # 44 THEN Strip(v)
    ELSE Strip(SubSeq(v, 1, (CHOOSE p \in 1..Len(v) :
                                v[p] = 44 /\ \A q \in 1..(p - 1) : v[q] # 44) - 1))

\* the channel lines of [Channel Infos] whose key starts with "ch"
VhdrChannels(items) ==
    [k \in 1..Len(SelectSeq(items, LAMBDA it : Upper(SubSeq(it.k, 1, 2)) = <<67, 72>>)) |->
        [label |-> FirstPart(SelectSeq(items,
                       LAMBDA it : Upper(SubSeq(it.k, 1, 2)) = <<67, 72>>)[k].v)]]

\* the except clause of parse_vhdr: the keys assigned so far stay
VhdrFailed(out) == [out EXCEPT !.ok = FALSE]

\* parse_vhdr, from the parsing of SamplingInterval on
VhdrInterval(out, cfg, interval) ==
    IF ~interval.ok THEN VhdrFailed(out)
    ELSE out @@ [SamplingInterval_us |-> interval,
                 UseBigEndianOrder |->
                     Upper(Strip(Get(cfg.common[1], "UseBigEndianOrder", <<78, 79>>)))
                         = <<89, 69, 83>>,
                 BinaryFormat |-> Strip(Get(cfg.binary[1], "BinaryFormat", <<>>)),
                 channels |-> VhdrChannels(cfg.channels[1])]

\* parse_vhdr, from the parsing of NumberOfChannels on
VhdrCount(out, cfg, n) ==
    IF ~n.ok THEN VhdrFailed(out)
    ELSE VhdrInterval(out @@ [NumberOfChannels |-> n.val], cfg,
             ParseFloat(OrDefault(Strip(Get(cfg.common[1], "SamplingInterval", <<48>>)),
                                  <<48>>)))

\* parse_vhdr on the sections ConfigParser has read
parse_vhdr(cfg) ==
    IF cfg.common = None \/ cfg.binary = None \/ cfg.channels = None
    THEN [ok |-> FALSE]
    ELSE VhdrCount([ok |-> TRUE,
                    DataFile |-> Strip(Get(cfg.common[1], "DataFile", <<>>)),
                    MarkerFile |-> Strip(Get(cfg.common[1], "MarkerFile", <<>>)),
                    DataFormat |-> Strip(Get(cfg.common[1], "DataFormat", <<>>)),
                    DataOrientation |-> Strip(Get(cfg.common[1], "DataOrientation", <<>>))],
                   cfg,
                   ParseInt(OrDefault(Strip(Get(cfg.common[1], "NumberOfChannels", <<48>>)),
                                      <<48>>)))

\* the code points of the names the validator knows (str literals of
\* _check_standard_channel_set, _validate_clinical_channels and
\* _validate_clinical_montage)
\* "10-20": Fp1, Fp2, F3, F4, C3, C4, P3, P4, O1, O2, F7, F8, T3, T4, T5, T6, Fz, Cz, Pz
TEN_TWENTY ==
    <<
    <<70, 112, 49>>, <<70, 112, 50>>, <<70, 51>>, <<70, 52>>,
    <<67, 51>>, <<67, 52>>, <<80, 51>>, <<80, 52>>,
    <<79, 49>>, <<79, 50>>, <<70, 55>>, <<70, 56>>,
    <<84, 51>>, <<84, 52>>, <<84, 53>>, <<84, 54>>,
    <<70, 122>>, <<67, 122>>, <<80, 122>> >>
\* "10-10": the 10-20 names and Fpz, AFz, FCz, CPz, POz
TEN_TEN ==
    TEN_TWENTY \o <<
    <<70, 112, 122>>, <<65, 70, 122>>, <<70, 67, 122>>, <<67, 80, 122>>,
    <<80, 79, 122>> >>
\* "minimal" and essential: Fp1, Fp2, C3, C4, O1, O2
MINIMAL ==
    <<
    <<70, 112, 49>>, <<70, 112, 50>>, <<67, 51>>, <<67, 52>>,
    <<79, 49>>, <<79, 50>> >>

\* standard_sets, in the order of the dict
standard_sets ==
    << [name |-> "10-20", labels |-> TEN_TWENTY],
       [name |-> "10-10", labels |-> TEN_TEN],
       [name |-> "minimal", labels |-> MINIMAL] >>

\* [l.upper() for l in labels]
UpperAll(labels) == [k \in 1..Len(labels) |-> Upper(labels[k])]

\* x in xs
In(x, xs) == \E k \in 1..Len(xs) : xs[k] = x

\* the sets whose first six names are all among the labels
MatchingSets(labels) ==
    SelectSeq(standard_sets,
              LAMBDA s : \A k \in 1..6 : In(Upper(s.labels[k]), UpperAll(labels)))

\* _check_standard_channel_set; False is "False"
_check_standard_channel_set(labels) ==
    IF Len(labels) = 0 THEN "False"
    ELSE IF Len(MatchingSets(labels)) > 0 THEN MatchingSets(labels)[1].name
    ELSE "CUSTOM"

\* a < b on floats
FloatLt(a, b) == a.num * b.den < b.num * a.den

\* _check_clinical_sampling_rate
_check_clinical_sampling_rate(f) ==
    IF f = None THEN "False"
    ELSE IF FloatGe(f[1], FloatOfInt(200)) /\ FloatGe(FloatOfInt(1000), f[1])
    THEN "STANDARD"
    ELSE IF FloatLt(FloatOfInt(1000), f[1]) THEN "HIGH_FREQUENCY"
    ELSE "LOW_FREQUENCY"

\* _check_clinical_duration of n_records * duration_record_s seconds
_check_clinical_duration(d) ==
    IF FloatGe(d, FloatOfInt(20 * 60)) /\ FloatGe(FloatOfInt(60 * 60), d)
    THEN "STANDARD"
    ELSE IF FloatLt(FloatOfInt(60 * 60), d) THEN "LONG"
    ELSE "SHORT"

\* standard_10_20 of _validate_clinical_montage: frontal FP1 FP2 F3 F4 F7 F8
\* FZ, central C3 C4 CZ, parietal P3 P4 PZ, occipital O1 O2, temporal T3 T4
\* T5 T6
standard_10_20 ==
    << [region |-> "frontal",
        channels |-> << <<70, 80, 49>>, <<70, 80, 50>>, <<70, 51>>, <<70, 52>>, <<70, 55>>, <<70, 56>>, <<70, 90>> >>],
       [region |-> "central",
        channels |-> << <<67, 51>>, <<67, 52>>, <<67, 90>> >>],
       [region |-> "parietal",
        channels |-> << <<80, 51>>, <<80, 52>>, <<80, 90>> >>],
       [region |-> "occipital",
        channels |-> << <<79, 49>>, <<79, 50>> >>],
       [region |-> "temporal",
        channels |-> << <<84, 51>>, <<84, 52>>, <<84, 53>>, <<84, 54>> >>] >>

\* sum(1 for ch in channels if ch in labels_upper)
Present(channels, labels_upper) ==
    Cardinality({k \in 1..Len(channels) : In(channels[k], labels_upper)})

\* the issues of _validate_clinical_montage: the regions with score < 0.5
\* (_validate_clinical_protocols adds none)
MontageIssues(labels) ==
    SelectSeq(standard_10_20,
              LAMBDA g : 2 * Present(g.channels, UpperAll(labels)) < Len(g.channels))

\* missing_essential
MissingEssential(labels) ==
    SelectSeq(MINIMAL, LAMBDA ch : ~In(Upper(ch), UpperAll(labels)))

\* duplicates: the upper-cased labels counted more than once
Duplicates(labels) ==
    {UpperAll(labels)[k] : k \in {i \in 1..Len(labels) :
        \E j \in 1..Len(labels) : j # i /\ UpperAll(labels)[j] = UpperAll(labels)[i]}}

\* _validate_clinical_channels: the keys cross_checks reads, and the issues
\* that decide them
_validate_clinical_channels(labels) ==
    IF Len(labels) = 0 THEN [valid |-> FALSE]
    ELSE [valid |-> /\ Len(MissingEssential(labels)) = 0
                    /\ Duplicates(labels) = {}
                    /\ Len(MontageIssues(labels)) = 0,
          n_channels |-> Len(labels),
          has_essential |-> Len(MissingEssential(labels)) = 0]

\* the code points of the words cross_checks compares with
MULTIPLEXED == <<77, 85, 76, 84, 73, 80, 76, 69, 88, 69, 68>>
BINARY == <<66, 73, 78, 65, 82, 89>>
INT_16 == <<73, 78, 84, 95, 49, 54>>
\* "INT_16", "INT32", "FLOAT_32", "FLOAT_64"
StandardFormats ==
    { INT_16, <<73, 78, 84, 51, 50>>,
      <<70, 76, 79, 65, 84, 95, 51, 50>>,
      <<70, 76, 79, 65, 84, 95, 54, 52>> }
\* "32"
ThirtyTwo == <<51, 50>>
\* '', 'X', 'Y', 'Z', 'UNKNOWN'
SuspiciousVhdrLabels == { <<>>, <<88>>, <<89>>, <<90>>, <<85, 78, 75, 78, 79, 87, 78>> }
\* "start", "recording_start"
StartWords == { <<115, 116, 97, 114, 116>>, <<114, 101, 99, 111, 114, 100, 105, 110, 103, 95, 115, 116, 97, 114, 116>> }
\* "end", "recording_end"
EndWords == { <<101, 110, 100>>, <<114, 101, 99, 111, 114, 100, 105, 110, 103, 95, 101, 110, 100>> }

\* str.lower() on ASCII text
Lower(s) == [k \in 1..Len(s) |-> IF s[k] \in 65..90 THEN s[k] + 32 ELSE s[k]]

\* one entry of warnings, critical_issues or advice: the message and the
\* value it quotes
Finding(msg, about) == [msg |-> msg, about |-> about]

\* What signal_qc_with_mne returns is an input: a dict
\*   [ok, signal_quality, clinical_compliance, advanced_artifacts]
\* signal_quality is None or Some(its overall_score, 0..100),
\* clinical_compliance is None or Some(its overall_score in hundredths),
\* advanced_artifacts is the sequence of the severities of the artifacts
\* detected.
PassedQc ==
    [ok |-> TRUE, signal_quality |-> Some(100), clinical_compliance |-> Some(100),
     advanced_artifacts |-> <<"mild">>]

\* (mutant) the report holds a signal QC entry from the start
NewReportWithQc ==
    [checks |-> <<>>, advice |-> <<>>, warnings |-> <<>>, critical_issues |-> <<>>,
     summary |-> [edf |-> None, vhdr |-> None, vmrk_n_markers |-> None],
     file_integrity |-> None,
     clinical_validation |-> [edf |-> None, channels |-> None],
     signal_qc |-> Some(PassedQc)]

\* the report cross_checks starts from.  A key of the report, of summary or
\* of clinical_validation that is not set holds None; the time stamp, the
\* paths and the hash of the binary file are left out
NewReport ==
    [checks |-> <<>>, advice |-> <<>>, warnings |-> <<>>, critical_issues |-> <<>>,
     summary |-> [edf |-> None, vhdr |-> None, vmrk_n_markers |-> None],
     file_integrity |-> None,
     clinical_validation |-> [edf |-> None, channels |-> None],
     signal_qc |-> None]

\* edf.n_records * edf.duration_record_s
DurationOf(h) ==
    [ok |-> TRUE, num |-> h.n_records[1] * h.duration_record_s[1].num,
     den |-> h.duration_record_s[1].den]

\* the block "if edf_ok"; c is what common_fs returned
EdfBlock(r, h, c, total) ==
    [r EXCEPT
       !.summary.edf =
           Some([edf_fs |-> c[1], edf_fs_channels_equal |-> c[2],
                 edf_n_signals |-> h.n_signals[1], edf_duration_s |-> DurationOf(h),
                 edf_total_samples_per_ch |-> total]),
       !.warnings = @ \o [k \in 1..Len(h.warnings) |-> Finding("EDF", h.warnings[k])],
       !.critical_issues =
           @ \o [k \in 1..Len(h.validation_errors) |-> Finding("EDF", h.validation_errors[k])],
       !.clinical_validation.edf =
           Some([channels_standard |-> _check_standard_channel_set(h.labels),
                 sampling_rate_clinical |-> _check_clinical_sampling_rate(Some(c[1])),
                 duration_clinical |-> _check_clinical_duration(DurationOf(h))])]

\* 1_000_000.0 / interval for interval # 0
FsOfInterval(i) ==
    IF i.num > 0 THEN [ok |-> TRUE, num |-> 1000000 * i.den, den |-> i.num]
    ELSE [ok |-> TRUE, num |-> -1000000 * i.den, den |-> -i.num]

\* abs(a - b) < 1e-6, from the millionths of a and of b: LongDiv gives the
\* whole millionths and the remainder
CloseDiv(p, q, pd, qd) ==
    \/ p.quo = q.quo
    \/ p.quo = q.quo + 1 /\ p.rem * qd < q.rem * pd
    \/ q.quo = p.quo + 1 /\ q.rem * pd < p.rem * qd

Close(a, b) ==
    CloseDiv(LongDiv(Lowest(a).num, Lowest(a).den, ROUND_DIGITS),
             LongDiv(Lowest(b).num, Lowest(b).den, ROUND_DIGITS),
             Lowest(a).den, Lowest(b).den)

\* the warnings of the block "if vhdr"
VhdrWarnings(binfmt, labels_vhdr) ==
    (IF binfmt \notin StandardFormats
     THEN << Finding("VHDR: Non-standard binary format", binfmt) >> ELSE <<>>)
    \o (IF Len(labels_vhdr) = 0
        THEN << Finding("VHDR: No channel labels defined", <<>>) >> ELSE <<>>)
    \o [k \in 1..Len(SelectSeq(labels_vhdr, LAMBDA l : Strip(l) \in SuspiciousVhdrLabels)) |->
           Finding("VHDR: Suspicious channel label",
                   SelectSeq(labels_vhdr, LAMBDA l : Strip(l) \in SuspiciousVhdrLabels)[k])]

\* [c["label"] for c in vhdr.get("channels", [])]
LabelsOf(v) ==
    [k \in 1..Len(Get(v, "channels", <<>>)) |-> Get(v, "channels", <<>>)[k].label]

\* the block "if vhdr", after the sampling rate: zero is whether the division
\* raised ZeroDivisionError
VhdrChecks(r, e, v, fs_vhdr, zero) ==
    [r EXCEPT
       !.critical_issues =
           @ \o (IF zero THEN << Finding("VHDR: Invalid sampling interval", <<>>) >>
                 ELSE <<>>),
       !.summary.vhdr =
           Some([vhdr_fs |-> fs_vhdr,
                 vhdr_n_channels |-> IF "NumberOfChannels" \in DOMAIN v
                                     THEN Some(v.NumberOfChannels) ELSE None,
                 vhdr_binfmt |-> Upper(Get(v, "BinaryFormat", <<>>)),
                 vhdr_dataformat |-> Upper(Get(v, "DataFormat", <<>>)),
                 vhdr_dataorientation |-> Upper(Get(v, "DataOrientation", <<>>)),
                 vhdr_labels |-> LabelsOf(v)]),
       !.checks =
           @ \o << [name |-> "FS match (EDF vs VHDR)", expected |-> e.fs_edf,
                    observed |-> fs_vhdr,
                    pass |-> e.edf_ok /\ Close(fs_vhdr, e.fs_edf[1])],
                   [name |-> "N channels match (EDF vs VHDR)",
                    expected |-> IF e.edf_ok THEN e.edf[1].n_signals ELSE None,
                    observed |-> IF "NumberOfChannels" \in DOMAIN v
                                 THEN Some(v.NumberOfChannels) ELSE None,
                    pass |-> /\ e.edf_ok
                             /\ "NumberOfChannels" \in DOMAIN v
                             /\ v.NumberOfChannels = e.edf[1].n_signals[1]],
                   [name |-> "Orientation MULTIPLEXED", expected |-> MULTIPLEXED,
                    observed |-> Upper(Get(v, "DataOrientation", <<>>)),
                    pass |-> Upper(Get(v, "DataOrientation", <<>>)) = MULTIPLEXED],
                   [name |-> "DataFormat BINARY", expected |-> BINARY,
                    observed |-> Upper(Get(v, "DataFormat", <<>>)),
                    pass |-> Upper(Get(v, "DataFormat", <<>>)) = BINARY] >>,
       !.warnings = @ \o VhdrWarnings(Upper(Get(v, "BinaryFormat", <<>>)), LabelsOf(v))]

\* the block "if vhdr"
VhdrBlock(r, e) ==
    IF e.vhdr = None THEN r
    ELSE IF Get(e.vhdr[1], "SamplingInterval_us", FloatOfInt(0)).num = 0
    THEN VhdrChecks(r, e, e.vhdr[1], FloatOfInt(0), TRUE)
    ELSE VhdrChecks(r, e, e.vhdr[1], FsOfInterval(e.vhdr[1].SamplingInterval_us), FALSE)

\* any(m.get("desc", "").lower() in words for m in markers)
HasMarker(markers, words) ==
    \E k \in 1..Len(markers) : Lower(Get(markers[k], "desc", <<>>)) \in words

\* the markers whose latency exceeds the length of the first channel
LateMarkers(e, markers) ==
    IF e.edf_ok /\ Len(e.total[1]) > 0
    THEN SelectSeq(markers, LAMBDA m : Get(m, "latency_samples", 0) > e.total[1][1])
    ELSE <<>>

\* the block "if vmrk"
VmrkBlock(r, e) ==
    IF e.vmrk = None THEN r
    ELSE IF Len(Get(e.vmrk[1], "markers", <<>>)) = 0
    THEN [r EXCEPT !.summary.vmrk_n_markers = Some(0)]
    ELSE [r EXCEPT
            !.summary.vmrk_n_markers = Some(Len(e.vmrk[1].markers)),
            !.checks =
                @ \o << [name |-> "VMRK has start marker", expected |-> TRUE,
                         observed |-> HasMarker(e.vmrk[1].markers, StartWords),
                         pass |-> HasMarker(e.vmrk[1].markers, StartWords)],
                        [name |-> "VMRK has end marker", expected |-> TRUE,
                         observed |-> HasMarker(e.vmrk[1].markers, EndWords),
                         pass |-> HasMarker(e.vmrk[1].markers, EndWords)] >>,
            !.warnings =
                @ \o [k \in 1..Len(LateMarkers(e, e.vmrk[1].markers)) |->
                         Finding("VMRK: Marker latency exceeds recording length",
                                 LateMarkers(e, e.vmrk[1].markers)[k])]]

\* bps = 2 if binfmt == "INT_16" else 4 if "32" in binfmt else 2
BytesPerSample(binfmt) ==
    IF binfmt = INT_16 THEN 2 ELSE IF Contains(binfmt, ThirtyTwo) THEN 4 ELSE 2

\* file_bytes > 10_000_000_000
VeryLarge(file_bytes) ==
    \/ file_bytes \div 10 > 1000000000
    \/ file_bytes \div 10 = 1000000000 /\ file_bytes % 10 > 0

\* the block of the binary file, after binfmt and expected
BinaryCheck(r, file, binfmt, expected) ==
    [r EXCEPT
       !.file_integrity = Some([size_bytes |-> file.size, exists |-> TRUE,
                                readable |-> file.readable]),
       !.checks = Append(@, [name |-> "EEG binary size matches expected",
                             expected_bytes |-> expected,
                             observed_bytes |-> file.size,
                             pass |-> expected = file.size,
                             binary_format |-> binfmt,
                             bytes_per_sample |-> BytesPerSample(binfmt)]),
       !.advice = @ \o (IF expected # file.size
                        THEN << Finding("Binary size mismatch", << expected, file.size >>) >>
                        ELSE <<>>),
       !.critical_issues =
           @ \o (IF file.size < 1000
                 THEN << Finding("EEG file suspiciously small", file.size) >> ELSE <<>>)
             \o (IF ~file.readable
                 THEN << Finding("EEG file not readable", <<>>) >> ELSE <<>>),
       !.warnings =
           @ \o (IF file.size >= 1000 /\ VeryLarge(file.size)
                 THEN << Finding("EEG file very large", file.size) >> ELSE <<>>)]

\* the block of the binary file, after binfmt
BinaryExpected(r, e, binfmt) ==
    BinaryCheck(r, e.eeg[1], binfmt,
                e.edf[1].n_signals[1]
                    * (IF Len(e.total[1]) > 0 THEN e.total[1][1] ELSE 0)
                    * BytesPerSample(binfmt))

\* the block "if eeg_path and eeg_path.exists() and edf_ok"
BinaryBlock(r, e) ==
    IF e.eeg = None \/ ~e.eeg[1].exists \/ ~e.edf_ok THEN r
    ELSE BinaryExpected(r, e,
             Upper(IF e.vhdr = None THEN INT_16
                   ELSE Get(e.vhdr[1], "BinaryFormat", INT_16)))

\* set([l.upper() for l in labels])
UpperSet(labels) == {Upper(labels[k]) : k \in 1..Len(labels)}

\* the block "if vhdr and edf_ok", after same_len and same_set
LabelsCheck(r, labels_vhdr, labels_edf, same_len, same_set) ==
    [r EXCEPT
       !.checks = Append(@, [name |-> "Channel labels set match",
                             expected_set |-> labels_edf,
                             observed_set |-> labels_vhdr,
                             pass |-> same_set]),
       !.advice =
           @ \o (IF same_set /\ ~same_len
                 THEN << Finding("Channel label sets match but lengths differ", <<>>) >>
                 ELSE <<>>)
             \o (IF same_set /\ labels_vhdr # labels_edf
                 THEN << Finding("Channel labels are same set but different order", <<>>) >>
                 ELSE <<>>),
       !.clinical_validation.channels = Some(_validate_clinical_channels(labels_vhdr))]

\* the block "if vhdr and edf_ok"
LabelsBlock(r, e) ==
    IF e.vhdr = None \/ ~e.edf_ok THEN r
    ELSE LabelsCheck(r, LabelsOf(e.vhdr[1]), e.labels_edf[1],
                     Len(LabelsOf(e.vhdr[1])) = Len(e.labels_edf[1]),
                     UpperSet(LabelsOf(e.vhdr[1])) = UpperSet(e.labels_edf[1]))

\* the scoring counts confidences in units of 1 / UNIT: with at most eight
\* checks, a clinical score in twentieths over 3 or 5 clinical checks and
\* penalties in hundredths, every value it forms is a whole number of units
UNIT == 21000

\* sum(1 for c in report["checks"] if c["pass"])
Passed(checks) == Cardinality({k \in 1..Len(checks) : checks[k].pass})

\* clinical_score of the "edf" entry, in twentieths
EdfClinicalScore(c) ==
    (IF c.channels_standard \notin {"False", "CUSTOM"} THEN 2 ELSE 0)
    + (IF c.sampling_rate_clinical = "STANDARD" THEN 2 ELSE 0)
    + (IF c.duration_clinical = "STANDARD" THEN 1 ELSE 0)

\* clinical_score of the "channels" entry, in twentieths
ChannelsClinicalScore(c) ==
    (IF c.valid THEN 2 ELSE 0) + (IF Get(c, "has_essential", FALSE) THEN 1 ELSE 0)

\* clinical_score / clinical_checks * 0.2
ClinicalBonus(cv) ==
    (((IF cv.edf # None THEN EdfClinicalScore(cv.edf[1]) ELSE 0)
        + (IF cv.channels # None THEN ChannelsClinicalScore(cv.channels[1]) ELSE 0))
       * UNIT)
      \div (100 * Max(1, (IF cv.edf # None THEN 3 ELSE 0)
                            + (IF cv.channels # None THEN 2 ELSE 0)))

\* round(x, 3), in thousandths
Thousandths(x) ==
    RoundHalfEven([quo |-> (1000 * x) \div UNIT, rem |-> (1000 * x) % UNIT], UNIT)

\* (mutant) the thresholds are exclusive
AssessmentExclusive(final) ==
    IF 100 * final > 95 * UNIT THEN "EXCELLENT"
    ELSE IF 100 * final > 85 * UNIT THEN "VERY_GOOD"
    ELSE IF 100 * final > 75 * UNIT THEN "GOOD"
    ELSE IF 100 * final > 60 * UNIT THEN "FAIR"
    ELSE IF 100 * final > 40 * UNIT THEN "POOR"
    ELSE "CRITICAL"

\* the assessment tier of a final confidence
Assessment(final) ==
    IF 100 * final >= 95 * UNIT THEN "EXCELLENT"
    ELSE IF 100 * final >= 85 * UNIT THEN "VERY_GOOD"
    ELSE IF 100 * final >= 75 * UNIT THEN "GOOD"
    ELSE IF 100 * final >= 60 * UNIT THEN "FAIR"
    ELSE IF 100 * final >= 40 * UNIT THEN "POOR"
    ELSE "CRITICAL"

\* the summary of the scoring and the return; the rounded values are in
\* thousandths.  final_confidence, a local of cross_checks, is kept beside
\* the report
Summarise(r, passed, total, base, bonus, penalty, final) ==
    [raised |-> FALSE,
     final_confidence |-> final,
     report |->
        [r EXCEPT !.summary =
            @ @@ [confidence |-> Thousandths(final),
                  base_confidence |-> Thousandths(base),
                  advanced_bonus |-> Thousandths(bonus),
                  total_penalty |-> Thousandths(penalty),
                  checks_passed |-> passed,
                  checks_total |-> total,
                  critical_issues_count |-> Len(r.critical_issues),
                  warnings_count |-> Len(r.warnings),
                  assessment |-> Assessment(final)]]]

\* final_confidence = max(0.0, min(1.0, ...))
Scored(r, passed, total, base, bonus, penalty) ==
    Summarise(r, passed, total, base, bonus, penalty,
              Max(0, Min(UNIT, base + bonus - penalty)))

\* report.get("signal_qc", {}).get("ok")
QcPassed(r) == r.signal_qc # None /\ r.signal_qc[1].ok

\* signal_qc_bonus: (quality_score / 100) * 0.15 + compliance_score * 0.1
SignalQcBonus(r) ==
    IF ~QcPassed(r) THEN 0
    ELSE (IF r.signal_qc[1].signal_quality # None
          THEN (r.signal_qc[1].signal_quality[1] * 15 * UNIT) \div 10000 ELSE 0)
         + (IF r.signal_qc[1].clinical_compliance # None
            THEN (r.signal_qc[1].clinical_compliance[1] * UNIT) \div 1000 ELSE 0)

RECURSIVE SeverityPenalty(_)
\* 0.1 for a severe, 0.05 for a moderate, 0.02 for a mild artifact
SeverityPenalty(severities) ==
    IF severities = <<>> THEN 0
    ELSE (IF Head(severities) = "severe" THEN (10 * UNIT) \div 100
          ELSE IF Head(severities) = "moderate" THEN (5 * UNIT) \div 100
          ELSE IF Head(severities) = "mild" THEN (2 * UNIT) \div 100 ELSE 0)
         + SeverityPenalty(Tail(severities))

\* advanced_penalty
ArtifactPenalty(r) ==
    IF ~QcPassed(r) THEN 0 ELSE SeverityPenalty(r.signal_qc[1].advanced_artifacts)

\* the confidence calculation
Score(r) ==
    Scored(r, Passed(r.checks), Len(r.checks),
           IF Len(r.checks) > 0 THEN (Passed(r.checks) * UNIT) \div Len(r.checks) ELSE 0,
           ClinicalBonus(r.clinical_validation) + SignalQcBonus(r),
           (Len(r.critical_issues) * 25 * UNIT) \div 100
               + (Len(r.warnings) * 3 * UNIT) \div 100
               + ArtifactPenalty(r))

\* cross_checks, from the VHDR block on; e holds the arguments and the locals
\* edf_ok, fs_edf, total (total_samples_ch) and labels_edf
CrossBlocks(r, e) == Score(LabelsBlock(BinaryBlock(VmrkBlock(VhdrBlock(r, e), e), e), e))

\* cross_checks on a valid header; c is the outcome of edf.common_fs(), whose
\* exception is not caught
CrossValid(edf, vhdr, vmrk, eeg_path, c) ==
    IF c.raised THEN [raised |-> TRUE]
    ELSE CrossBlocks(EdfBlock(NewReport, edf[1], c.value,
                              total_samples_per_channel(edf[1])[1]),
                     [edf |-> edf, vhdr |-> vhdr, vmrk |-> vmrk, eeg |-> eeg_path,
                      edf_ok |-> TRUE, fs_edf |-> Some(c.value[1]),
                      total |-> total_samples_per_channel(edf[1]),
                      labels_edf |-> Some(edf[1].labels)])

\* cross_checks(edf, vhdr, vmrk, eeg_path); an argument that is None is None
cross_checks(edf, vhdr, vmrk, eeg_path) ==
    IF edf # None /\ edf[1].valid
    THEN CrossValid(edf, vhdr, vmrk, eeg_path, common_fs(edf[1]))
    ELSE CrossBlocks([NewReport EXCEPT !.critical_issues =
                         << Finding("EDF file validation failed", <<>>) >>],
                     [edf |-> edf, vhdr |-> vhdr, vmrk |-> vmrk, eeg |-> eeg_path,
                      edf_ok |-> FALSE, fs_edf |-> None, total |-> None,
                      labels_edf |-> None])

(***************************************************************************)
(* Inputs.                                                                 *)
(***************************************************************************)
\* "EEG Paradox Patient" (the default), as code points
DefaultName == <<69, 69, 71, 32, 80, 97, 114, 97, 100, 111, 120, 32,
                 80, 97, 116, 105, 101, 110, 116>>
\* 34 characters, the first one not ASCII (U+00E9)
LongName == <<233>> \o [j \in 1..33 |-> 64 + (j % 26)]
Names == {DefaultName, LongName}

TemplateLen(frames) == HEADER + frames * FRAME + TRAILER
\* a template whose replacement window has MaxWindow frames
LargeFrames == HEAD_FRAMES + TAIL_FRAMES + MaxWindow
ShortLimit == SHORT_MINUTES * 60 * SAMPLE_RATE

OriginalChoices ==
    { NoFile,
      File(PatBytes(1, HEADER + TRAILER - 1)),
      File(PatBytes(2, TemplateLen(LargeFrames))) }
ExtendedChoices ==
    { NoFile,
      File(PatBytes(4, TemplateLen(1) + 1)),
      File(PatBytes(5, TemplateLen(1))) }
\* missing; an odd number of bytes; no sample; 37 samples (one frame and 18
\* samples more); 1500 frames; 1501 frames; exactly 12 minutes; 12 minutes
\* and one frame
RawChoices ==
    { NoFile,
      File(PatBytes(6, 39)),
      File(PatBytes(7, 0)),
      File(PatBytes(8, BPS * (CH + 18))),
      File(PatBytes(9, BPS * CH * (HEAD_FRAMES + TAIL_FRAMES))),
      File(PatBytes(10, BPS * CH * (HEAD_FRAMES + TAIL_FRAMES + 1))),
      File(PatBytes(11, BPS * CH * ShortLimit)),
      File(PatBytes(12, BPS * CH * (ShortLimit + 1))) }

NoCall == [op |-> "none"]

NoReturn == [op |-> "none"]

\* no header object is in use
HdrIdle ==
    /\ edf_file = NoFile
    /\ hdr = EDFHeader
    /\ ret = NoReturn
    /\ tasks = <<>>

InitFs(o, e, r) ==
    [p \in Paths |->
        IF p = ORIGINAL_TEMPLATE THEN o
        ELSE IF p = EXTENDED_TEMPLATE THEN e
        ELSE IF p = RawPath THEN r ELSE NoFile]

Init ==
    /\ \E o \in OriginalChoices, e \in ExtendedChoices, r \in RawChoices :
          fs = InitFs(o, e, r)
    /\ last = NoCall
    /\ prev = NoCall
    /\ calls = 0
    /\ HdrIdle

NoDecoded == [ok |-> FALSE, n_ch |-> 0, n_times |-> 0, seed |-> 0]

\* what a call leaves behind for the claims: its arguments, the files it
\* could read as they were when it started, the output file before and after
CallRecord(op, raw_file, decoded, output_file, patient_name, r) ==
    [op |-> op, raw_file |-> raw_file, decoded |-> decoded,
     output_file |-> output_file, patient_name |-> patient_name,
     inputs |-> [p \in TemplatePaths \cup {raw_file} |-> fs[p]],
     before |-> fs[output_file], after |-> r.fs[output_file],
     result |-> r.result, returned |-> r.returned, writes |-> r.writes,
     choice |-> r.choice, tpl |-> r.tpl, advice |-> r.advice,
     tpl_frames |-> r.tpl_frames, start |-> r.start, end |-> r.end,
     frames_to_use |-> r.frames_to_use]

\* the call has run to its end with outcome r
Finish(op, raw_file, decoded, output_file, patient_name, r) ==
    /\ fs' = r.fs
    /\ last' = CallRecord(op, raw_file, decoded, output_file, patient_name, r)
    /\ prev' = last
    /\ calls' = calls + 1
    /\ UNCHANGED <<edf_file, hdr, ret, tasks>>

\* a call of UniversalConverter.convert_raw_to_eeg
ConvertRawToEeg(output_file, patient_name) ==
    /\ calls < MaxCalls
    /\ Finish("convert_raw_to_eeg", RawPath, NoDecoded, output_file, patient_name,
              convert_raw_to_eeg(fs, RawPath, output_file, patient_name))

\* the first conversion of a session
FirstRun ==
    /\ calls = 0
    /\ \E output_file \in OutPaths, patient_name \in Names :
          ConvertRawToEeg(output_file, patient_name)

\* the same conversion run again with identical arguments
ReRun ==
    /\ calls > 0
    /\ ConvertRawToEeg(last.output_file, last.patient_name)

Next == FirstRun \/ ReRun

Spec == Init /\ [][Next]_vars

(***************************************************************************)
(* Sessions of convert_edf_to_wineeg (specification EdfSpec).              *)
(***************************************************************************)
\* the longest decoded recording, in samples per channel
MaxTimes == 2

DecodedChoices ==
    { NoDecoded, [ok |-> TRUE, n_ch |-> 18, n_times |-> 1, seed |-> 3],
      [ok |-> TRUE, n_ch |-> 20, n_times |-> 1, seed |-> 4] }
    \cup { [ok |-> TRUE, n_ch |-> 19, n_times |-> n, seed |-> 5] : n \in 0..MaxTimes }

EdfInit ==
    /\ \E o \in OriginalChoices, e \in ExtendedChoices : fs = InitFs(o, e, NoFile)
    /\ last = NoCall
    /\ prev = NoCall
    /\ calls = 0
    /\ HdrIdle

\* a call of convert_edf_to_wineeg; the temporary file stands for raw_file
ConvertEdfToWineeg(d, output_file, patient_name) ==
    /\ calls < MaxCalls
    /\ Finish("convert_edf_to_wineeg", TempPath(output_file), d, output_file,
              patient_name, convert_edf_to_wineeg(fs, d, output_file, patient_name))

EdfFirstRun ==
    /\ calls = 0
    /\ \E d \in DecodedChoices, output_file \in OutPaths, patient_name \in Names :
          ConvertEdfToWineeg(d, output_file, patient_name)

EdfReRun ==
    /\ calls > 0
    /\ ConvertEdfToWineeg(last.decoded, last.output_file, last.patient_name)

EdfNext == EdfFirstRun \/ EdfReRun

EdfSpec == EdfInit /\ [][EdfNext]_vars

(***************************************************************************)
(* Sessions of EDFHeader (specification HdrSpec): a header object is       *)
(* constructed on a file, read once, and then asked for its totals.        *)
(***************************************************************************)
\* the number of channels the header files of the model describe
MaxChannels == 2

Ord ==
    [c \in {"0", "1", "2", "3", "5", "6", "7", "8", " ", "+", "-", ".", "x", "X",
            "E", "D", "F"} |->
        CASE c = "0" -> 48 [] c = "1" -> 49 [] c = "2" -> 50 [] c = "3" -> 51
          [] c = "5" -> 53 [] c = "6" -> 54 [] c = "7" -> 55 [] c = "8" -> 56
          [] c = " " -> 32 [] c = "+" -> 43 [] c = "-" -> 45 [] c = "." -> 46
          [] c = "x" -> 120 [] c = "X" -> 88 [] c = "E" -> 69 [] c = "D" -> 68
          [] c = "F" -> 70]

\* the bytes of an ASCII text
B(t) == [k \in 1..Len(t) |-> Ord[t[k]]]

RECURSIVE Digits(_)
\* the decimal text of a natural number
Digits(n) == IF n < 10 THEN << 48 + n >> ELSE Digits(n \div 10) \o << 48 + (n % 10) >>

\* a field of width w holding text t, padded with spaces
Pad(t, w) == t \o [k \in 1..(w - Len(t)) |-> 32]

BasePreamble ==
    [version |-> B(<<"0">>), patient |-> B(<<"X">>), recording |-> B(<<"E", "D", "F">>),
     startdate |-> B(<<"0", "1", ".", "0", "2", ".", "0", "3">>),
     starttime |-> B(<<"0", "1", ".", "0", "2", ".", "0", "3">>),
     header_bytes |-> Digits(PREAMBLE_BYTES + 256 * MaxChannels),
     format |-> <<>>, n_records |-> B(<<"1", "0">>), duration |-> B(<<"1">>),
     ns |-> Digits(MaxChannels)]

BaseChannel(c) ==
    [label |-> B(<<"F">>) \o Digits(c), transducer |-> <<>>, phys_dim |-> <<>>,
     phys_min |-> B(<<"-", "1", "0", "0">>), phys_max |-> B(<<"1", "0", "0">>),
     dig_min |-> B(<<"-", "3", "2", "7", "6", "8">>),
     dig_max |-> B(<<"3", "2", "7", "6", "7">>),
     prefilt |-> <<>>, samples |-> B(<<"2", "5", "0">>)]

BaseChannels == [c \in 1..MaxChannels |-> BaseChannel(c)]

\* the 256-byte preamble in the layout read() slices
PreambleBytes(p) ==
    Pad(p.version, 8) \o Pad(p.patient, 80) \o Pad(p.recording, 80)
    \o Pad(p.startdate, 8) \o Pad(p.starttime, 8) \o Pad(p.header_bytes, 8)
    \o Pad(p.format, 44) \o Pad(p.n_records, 8) \o Pad(p.duration, 8)
    \o Pad(p.ns, 4)

\* one field of every channel, concatenated across the channels
Block(chs, key, w) == Concat([c \in 1..Len(chs) |-> Pad(chs[c][key], w)])

EdfBytes(p, chs) ==
    PreambleBytes(p)
    \o Block(chs, "label", 16) \o Block(chs, "transducer", 80)
    \o Block(chs, "phys_dim", 8) \o Block(chs, "phys_min", 8)
    \o Block(chs, "phys_max", 8) \o Block(chs, "dig_min", 8)
    \o Block(chs, "dig_max", 8) \o Block(chs, "prefilt", 80)
    \o Block(chs, "samples", 8) \o Pad(<<>>, 32 * Len(chs))

NsTexts ==
    { Digits(MaxChannels), B(<<"1">>), B(<<"0">>), B(<<"-", "1">>), <<>>, B(<<"x">>),
      Digits(MAX_SIGNALS), Digits(MAX_SIGNALS + 1), B(<<"+", "1">>) }

RecordTexts == { B(<<"1", "0">>), <<>>, B(<<"x">>), B(<<"0">>), B(<<"1", ".", "5">>) }

DurationTexts ==
    { B(<<"1">>), B(<<"0", ".", "5">>), <<>>, B(<<"x">>), B(<<"0">>), B(<<"1", ".", "2", ".">>),
      B(<<"3">>) }

\* a text that parses, one that is empty, ones that do not parse (a letter,
\* null padding), one with a byte outside ASCII
SampleTexts ==
    { <<>>, B(<<"x">>), B(<<"0">>), B(<<"1", "2", "5">>),
      B(<<"2", "5", "0">>) \o <<0, 0>>, <<233>> \o B(<<"2", "5", "0">>),
      B(<<"2", ".", "5">>) }

RangeTexts == { <<>>, B(<<"x">>), B(<<"1", "0", "0">>), B(<<"1", ".", "5">>) }

LabelTexts == { <<>>, B(<<"X">>), B(<<"F", "1">>) }

PreambleChoices ==
    { [BasePreamble EXCEPT !.ns = t] : t \in NsTexts }
    \cup { [BasePreamble EXCEPT !.n_records = r, !.duration = d] :
              r \in RecordTexts, d \in DurationTexts }
    \cup { [BasePreamble EXCEPT !.header_bytes = t] :
              t \in { B(<<"x">>), Digits(STANDARD_HEADER_LENGTH) } }
    \cup { [BasePreamble EXCEPT !.version = B(<<"1">>), !.patient = <<>>,
                                !.startdate = B(<<"0", "0", ".", "0", "0", ".", "0", "0">>)] }

ChannelChoices ==
    UNION { { [BaseChannels EXCEPT ![c].samples = t] : t \in SampleTexts }
            \cup { [BaseChannels EXCEPT ![c].phys_min = t] : t \in RangeTexts }
            \cup { [BaseChannels EXCEPT ![c].dig_max = t] : t \in RangeTexts }
            \cup { [BaseChannels EXCEPT ![c].label = t] : t \in LabelTexts } :
            c \in 1..MaxChannels }

BaseBytes == EdfBytes(BasePreamble, BaseChannels)

\* 19 channels, 10 records of 1.0 s, 250 samples per record on every channel
ScenarioA ==
    EdfBytes([BasePreamble EXCEPT !.ns = Digits(CH), !.duration = B(<<"1", ".", "0">>),
                                  !.header_bytes = Digits(PREAMBLE_BYTES + 256 * CH)],
             [c \in 1..CH |-> BaseChannel(c)])

\* records of 88888888 s with 1, 2, ... samples per record: rates that differ
\* by less than the rounding of common_fs
SlowChannels ==
    EdfBytes([BasePreamble EXCEPT !.duration = B(<<"8", "8", "8", "8", "8", "8", "8", "8">>)],
             [c \in 1..MaxChannels |-> [BaseChannel(c) EXCEPT !.samples = Digits(c)]])

HdrFiles ==
    { EdfBytes(p, BaseChannels) : p \in PreambleChoices }
    \cup { EdfBytes(BasePreamble, chs) : chs \in ChannelChoices }
    \cup { SubSeq(BaseBytes, 1, n) :
              n \in {0, PREAMBLE_BYTES - 1, PREAMBLE_BYTES, PREAMBLE_BYTES + 100} }
    \cup { ScenarioA, SlowChannels }

HdrInit ==
    /\ edf_file \in {NoFile} \cup { [exists |-> TRUE, data |-> b] : b \in HdrFiles }
    /\ hdr = EDFHeader
    /\ ret = NoReturn
    /\ fs = [p \in Paths |-> NoFile]
    /\ last = NoCall
    /\ prev = NoCall
    /\ calls = 0
    /\ tasks = <<>>

\* the call has run to its end with outcome r
HdrFinishRead(r) ==
    /\ hdr' = r.hdr
    /\ ret' = [op |-> "read", raised |-> r.raised, value |-> None]

\* EDFHeader(path).read()
HdrRead ==
    /\ ret.op = "none"
    /\ HdrFinishRead(read(hdr, edf_file))
    /\ UNCHANGED <<edf_file, fs, last, prev, calls, tasks>>

\* total_samples_per_channel() on a header that read() has returned
HdrTotalSamples ==
    /\ ret.op = "read"
    /\ ~ret.raised
    /\ ret' = [op |-> "total_samples_per_channel", raised |-> FALSE,
               value |-> total_samples_per_channel(hdr)]
    /\ UNCHANGED <<edf_file, hdr, fs, last, prev, calls, tasks>>

\* common_fs() on a header that read() has returned
HdrCommonFs ==
    /\ ret.op = "read"
    /\ ~ret.raised
    /\ ret' = [op |-> "common_fs"] @@ common_fs(hdr)
    /\ UNCHANGED <<edf_file, hdr, fs, last, prev, calls, tasks>>

HdrNext == HdrRead \/ HdrTotalSamples \/ HdrCommonFs

HdrSpec == HdrInit /\ [][HdrNext]_vars

(***************************************************************************)
(* Sessions of the validator (specification CrossSpec): a header object is *)
(* constructed on a file and read, the sidecar of the generated files is   *)
(* parsed, and cross_checks is called once.                                *)
(***************************************************************************)
\* a preamble that validate_header_structure accepts without a warning
CleanPreamble ==
    [BasePreamble EXCEPT !.header_bytes = Digits(STANDARD_HEADER_LENGTH),
                         !.format = B(<<"E", "D", "F">>)]

\* 19 channels with the 10-20 names, 1800 records of 1 s at 250 Hz
ClinicalBytes ==
    EdfBytes([CleanPreamble EXCEPT !.ns = Digits(CH), !.n_records = Digits(1800)],
             [c \in 1..CH |-> [BaseChannel(c) EXCEPT !.label = TEN_TWENTY[c]]])

CrossFiles ==
    { BaseBytes, ScenarioA, SlowChannels, ClinicalBytes,
      EdfBytes(CleanPreamble, BaseChannels),
      SubSeq(BaseBytes, 1, PREAMBLE_BYTES - 1),
      EdfBytes(BasePreamble, [BaseChannels EXCEPT ![1].samples = B(<<"x">>)]),
      EdfBytes(BasePreamble, [BaseChannels EXCEPT ![MaxChannels].samples = B(<<"x">>)]),
      EdfBytes(BasePreamble, [BaseChannels EXCEPT ![MaxChannels].samples = B(<<"1", "2", "5">>)]),
      EdfBytes(BasePreamble, [BaseChannels EXCEPT ![1].label = B(<<"X">>)]),
      EdfBytes([BasePreamble EXCEPT !.duration = B(<<"3">>)], BaseChannels),
      EdfBytes(BasePreamble,
               [c \in 1..MaxChannels |->
                   [BaseChannel(c) EXCEPT !.samples = B(<<"2", "5", "6">>)]]) }

\* the options of a section without one of them
Without(d, key) == [x \in DOMAIN d \ {key} |-> d[x]]

\* the sections of a sidecar with the given channel names and option texts
Sidecar(labels, n, interval, format, orientation, binfmt) ==
    [common |-> Some([DataFile |-> <<97, 46, 101, 101, 103>>, MarkerFile |-> <<97, 46, 118, 109, 114, 107>>,
                      DataFormat |-> format, DataOrientation |-> orientation,
                      NumberOfChannels |-> n, SamplingInterval |-> interval]),
     binary |-> Some([BinaryFormat |-> binfmt]),
     channels |-> Some([k \in 1..Len(labels) |->
                          [k |-> <<67, 104>> \o Digits(k),
                           v |-> labels[k] \o <<44, 44, 48, 46, 49, 44, 117, 86>>]])]

\* [n - 1 - k] for k in range(n)
Reversed(s) == [k \in 1..Len(s) |-> s[Len(s) + 1 - k]]

\* the sidecar the converter writes for a recording of 250 Hz with these
\* channel names
Matching(labels) ==
    Sidecar(labels, Digits(Len(labels)), <<52, 48, 48, 48>>, BINARY, MULTIPLEXED, INT_16)

\* micround: int(round(1_000_000.0 / float(fs))) for fs > 0, the division
\* carried to six decimals digit by digit and rounded half to even
micround(f) ==
    RoundHalfEven(LongDiv(Lowest(f).den, Lowest(f).num, ROUND_DIGITS), Lowest(f).num)

\* c.isalnum() or c in '-_', on an ASCII character
KeptInName(c) == c \in (48..57) \cup (65..90) \cup (97..122) \cup {45, 95}

\* ''.join(c for c in ch_name if c.isalnum() or c in '-_')
clean_name(ch_name) == SelectSeq(ch_name, KeptInName)

\* what create_brainvision_header writes for the info analyze_edf_file
\* builds from the header: channels = n_signals, channel_names = labels,
\* sampling_rate = common_fs()[0]
create_brainvision_header(h, sampling_rate) ==
    Sidecar([k \in 1..Len(h.labels) |-> clean_name(h.labels[k])],
            Digits(h.n_signals[1]), Digits(micround(sampling_rate)),
            BINARY, MULTIPLEXED, INT_16)

\* the sidecars the converter generates from a header: none when the header
\* is not valid or has no positive common rate (analyze_edf_file or micround
\* fails), else the one of create_brainvision_header
Generated(h) ==
    IF h.valid /\ ~common_fs(h).raised /\ common_fs(h).value[1].num > 0
    THEN { create_brainvision_header(h, common_fs(h).value[1]) }
    ELSE {}

\* sidecars that agree with the header, that disagree with it, and that are
\* malformed
Sidecars(labels) ==
    { Matching(labels),
      Matching(Reversed(labels)),
      Matching([k \in 1..Len(labels) |-> Lower(labels[k])]),
      Matching(labels \o SubSeq(labels, 1, Min(1, Len(labels)))),
      Matching(SubSeq(labels, 1, Len(labels) - 1) \o << <<88>> >>),
      Matching(<<>>),
      Sidecar(labels, Digits(Len(labels)), <<48>>, BINARY, MULTIPLEXED, INT_16),
      Sidecar(labels, Digits(Len(labels)), <<120>>, BINARY, MULTIPLEXED, INT_16),
      Sidecar(labels, <<120>>, <<52, 48, 48, 48>>, BINARY, MULTIPLEXED, INT_16),
      Sidecar(labels, Digits(Len(labels) + 1), <<50, 48, 48, 48>>,
              <<65, 83, 67, 73, 73>>, <<86, 69, 67, 84, 79, 82, 73, 90, 69, 68>>, INT_16),
      Sidecar(labels, Digits(Len(labels)), <<52, 48, 48, 48>>, Lower(BINARY),
              Lower(MULTIPLEXED),
              <<73, 69, 69, 69, 95, 70, 76, 79, 65, 84, 95, 51, 50>>),
      Sidecar(labels, Digits(Len(labels)), <<52, 48, 48, 48>>, BINARY, MULTIPLEXED,
              <<70, 76, 79, 65, 84, 95, 54, 52>>),
      [Matching(labels) EXCEPT !.common = Some(Without(@[1], "SamplingInterval"))],
      [Matching(labels) EXCEPT !.binary = Some(Without(@[1], "BinaryFormat"))],
      [Matching(labels) EXCEPT !.binary = None] }

\* the dict of parse_vmrk, or the minimal structure its callers build
MarkerChoices ==
    { None,
      Some([ok |-> FALSE, markers |-> <<>>]),
      Some([markers |-> << [desc |-> <<83, 84, 65, 82, 84>>, latency_samples |-> 0],
                           [desc |-> <<69, 78, 68>>, latency_samples |-> 2500] >>]),
      Some([ok |-> TRUE,
            markers |-> << [type |-> <<83>>, desc |-> <<83, 49>>,
                            latency_samples |-> 450001, channel |-> 0,
                            duration_samples |-> 1] >>]) }

\* channel_count * total_samples * 2 for the header, 0 when it has no totals
TwoBytesEach(h) ==
    IF h.valid /\ Len(h.samples_per_record) > 0
    THEN h.n_signals[1] * h.n_records[1] * h.samples_per_record[1] * 2
    ELSE 0

\* the binary file: no path, a path to no file, files of the expected size,
\* of twice that, one byte longer and one byte shorter, and one that cannot
\* be opened
BinaryChoices(h) ==
    { None, Some([exists |-> FALSE, size |-> 0, readable |-> FALSE]) }
    \cup { Some([exists |-> TRUE, size |-> s, readable |-> TRUE]) :
              s \in { TwoBytesEach(h), 2 * TwoBytesEach(h), TwoBytesEach(h) + 1,
                      Max(0, TwoBytesEach(h) - 1) } }
    \cup { Some([exists |-> TRUE, size |-> TwoBytesEach(h), readable |-> FALSE]) }

CrossInit ==
    /\ edf_file \in {NoFile} \cup { [exists |-> TRUE, data |-> b] : b \in CrossFiles }
    /\ hdr = EDFHeader
    /\ ret = NoReturn
    /\ fs = [p \in Paths |-> NoFile]
    /\ last = NoCall
    /\ prev = NoCall
    /\ calls = 0
    /\ tasks = <<>>

\* cross_checks(edf, vhdr, vmrk, eeg_path) with the header object, or with
\* no header, and the parsed sidecars
CrossChecks ==
    /\ ret.op = "read"
    /\ \E edf \in {None, Some(hdr)}, cfg \in Sidecars(hdr.labels) \cup Generated(hdr),
          with_vhdr \in BOOLEAN, vmrk \in MarkerChoices, eeg_path \in BinaryChoices(hdr) :
          ret' = [op |-> "cross_checks",
                  args |-> [edf |-> edf,
                            vhdr |-> IF with_vhdr THEN Some(parse_vhdr(cfg)) ELSE None,
                            vmrk |-> vmrk, eeg_path |-> eeg_path]]
                 @@ cross_checks(edf, IF with_vhdr THEN Some(parse_vhdr(cfg)) ELSE None,
                                 vmrk, eeg_path)
    /\ UNCHANGED <<edf_file, hdr, fs, last, prev, calls, tasks>>

\* what signal_qc_with_mne may return: a failure, a passed QC, and a passed
\* QC that holds nothing else
QcChoices ==
    { [ok |-> FALSE, signal_quality |-> None, clinical_compliance |-> None,
       advanced_artifacts |-> <<>>],
      PassedQc,
      [ok |-> TRUE, signal_quality |-> Some(60), clinical_compliance |-> None,
       advanced_artifacts |-> <<"severe", "moderate">>] }

\* the caller of cross_checks, when MNE is available: sig_qc =
\* signal_qc_with_mne(...); if sig_qc.get("ok"): report["signal_qc"] = sig_qc
AttachSignalQc ==
    /\ ret.op = "cross_checks"
    /\ ~ret.raised
    /\ ret.report.signal_qc = None
    /\ \E sig_qc \in QcChoices :
          ret' = IF sig_qc.ok THEN [ret EXCEPT !.report.signal_qc = Some(sig_qc)]
                 ELSE ret
    /\ UNCHANGED <<edf_file, hdr, fs, last, prev, calls, tasks>>

CrossNext == HdrRead \/ CrossChecks \/ AttachSignalQc

CrossSpec == CrossInit /\ [][CrossNext]_vars

(***************************************************************************)
(* Part 4: concurrent conversions.  A conversion is a task that runs       *)
(* either convert_edf_to_wineeg (converter_core.py) or                     *)
(* EEGConverter.convert_file (EEG_Paradox_Converter_v2.py, started on a    *)
(* thread of its own by start_conversion).  Its steps are its file         *)
(* operations, each taken as one atomic step: writing the intermediate raw *)
(* sample file, reading it, reading the template, writing the output file, *)
(* deleting the intermediate file.  Tasks share nothing but the file       *)
(* system.                                                                 *)
(***************************************************************************)
RECURSIVE LastSlash(_)
\* p.rfind('/') + 1
LastSlash(p) ==
    IF p = <<>> THEN 0
    ELSE IF p[Len(p)] = "/" THEN Len(p)
    ELSE LastSlash(SubSeq(p, 1, Len(p) - 1))

RECURSIVE RStripSlash(_)
\* head.rstrip('/')
RStripSlash(head) ==
    IF head # <<>> /\ head[Len(head)] = "/"
    THEN RStripSlash(SubSeq(head, 1, Len(head) - 1)) ELSE head

\* os.path.dirname(p): what precedes the last separator, without trailing
\* separators unless it holds nothing else
Dirname(p) ==
    LET head == SubSeq(p, 1, LastSlash(p))
    IN IF RStripSlash(head) = <<>> THEN head ELSE RStripSlash(head)

\* os.path.join(a, b) for a relative b
Join(a, b) ==
    IF a = <<>> \/ a[Len(a)] = "/" THEN a \o b ELSE a \o <<"/">> \o b

TEMP_RAW_DATA == <<"t", "e", "m", "p", "_", "r", "a", "w", "_", "d", "a", "t", "a",
                   ".", "b", "i", "n">>

\* os.path.join(os.path.dirname(self.output_file), "temp_raw_data.bin")
GuiTempPath(output_file) == Join(Dirname(output_file), TEMP_RAW_DATA)

\* raw.get_data() * 1e6 * 20, clipped to the int16 range, then
\* astype(np.int16), which truncates toward zero; v is the sample in units
\* of 1e-14 V, so the scaled value is v / 5000000.  The bounds of the clip
\* are integers, so clipping the truncated value gives the same result.
Scale20ClipCast(v) ==
    LET q == IF v >= 0 THEN v \div 5000000 ELSE -((-v) \div 5000000)
    IN IF q > 32767 THEN 32767 ELSE IF q < -32768 THEN -32768 ELSE q

\* edf_to_raw: data_int16.T.flatten(), sample after sample, the 19 channels
\* of a sample in channel order
GuiInterleaved(d) ==
    [buf |-> <<>>, off |-> 0, n |-> d.n_times * d.n_ch,
     over |-> [k \in 0..(d.n_times * d.n_ch - 1) |->
                  Scale20ClipCast(Volts14(d, k % d.n_ch, k \div d.n_ch))]]

\* the intermediate file of a task and the samples it writes there
TaskTemp(t) ==
    IF t.entry = "gui" THEN GuiTempPath(t.output_file) ELSE TempPath(t.output_file)

TaskSamples(t) ==
    IF t.entry = "gui" THEN GuiInterleaved(t.edf) ELSE Interleaved(t.edf)

\* EEGConverter.convert_file run from its first step to its last with no
\* other task: edf_to_raw, raw_to_eeg, then the cleanup.  Any exception ends
\* it before the cleanup.
convert_file(fsys, d, output_file, patient_name) ==
    IF ~d.ok \/ d.n_ch # 19 THEN EdfFailed(fsys)
    ELSE Cleanup(GuiTempPath(output_file),
                 convert_raw_to_eeg(
                     WriteFile(fsys, GuiTempPath(output_file),
                               << [kind |-> "i16", arr |-> GuiInterleaved(d)] >>),
                     GuiTempPath(output_file), output_file, patient_name))

\* the task run alone on file system fsys
RunAlone(fsys, t) ==
    IF t.entry = "gui"
    THEN convert_file(fsys, t.edf, t.output_file, t.patient_name)
    ELSE convert_edf_to_wineeg(fsys, t.edf, t.output_file, t.patient_name)

(***************************************************************************)
(* Two concurrent conversions (specification ConcSpec).                    *)
(***************************************************************************)
OutA == <<"a", ".", "e", "e", "g">>
OutB == <<"b", ".", "e", "e", "g">>
\* an output file in another directory
OutC == <<"d", "/", "c", ".", "e", "e", "g">>

ConcPaths ==
    TemplatePaths \cup {OutA, OutB, OutC}
    \cup { TempPath(p) : p \in {OutA, OutB, OutC} }
    \cup { GuiTempPath(p) : p \in {OutA, OutB, OutC} }

\* the two recordings: different samples, different lengths.  The samples
\* of a recording converted by convert_file are large enough to differ
\* after its scaling.
FirstEdf(entry) ==
    [ok |-> TRUE, n_ch |-> 19, n_times |-> 1,
     seed |-> IF entry = "gui" THEN 7500000 ELSE 5]

SecondEdf(entry) ==
    [ok |-> TRUE, n_ch |-> 19, n_times |-> MaxTimes,
     seed |-> IF entry = "gui" THEN 12500000 ELSE 25]

NoPlan == Abort("none", NoChoice)

\* a task that has not taken a step
NewTask(entry, d, output_file, patient_name) ==
    [entry |-> entry, edf |-> d, output_file |-> output_file,
     patient_name |-> patient_name, pc |-> "edf_to_raw", raw_file |-> <<>>,
     raw_data |-> <<>>, plan |-> NoPlan, outcome |-> "running"]

ConcFs ==
    [p \in ConcPaths |->
        IF p = ORIGINAL_TEMPLATE THEN File(PatBytes(2, TemplateLen(LargeFrames)))
        ELSE NoFile]

ConcInit ==
    /\ fs = ConcFs
    /\ \E e1 \in {"gui", "core"}, e2 \in {"gui", "core"}, o2 \in {OutB, OutC} :
          tasks = << NewTask(e1, FirstEdf(e1), OutA, DefaultName),
                     NewTask(e2, SecondEdf(e2), o2, LongName) >>
    /\ last = NoCall
    /\ prev = NoCall
    /\ calls = 0
    /\ edf_file = NoFile
    /\ hdr = EDFHeader
    /\ ret = NoReturn

\* the task has ended with an exception: convert_edf_to_wineeg catches it
\* and returns False, convert_file catches it and reports the error; neither
\* runs its cleanup
Aborted(t) == [t EXCEPT !.pc = "done", !.outcome = "failed"]

\* the recording is decoded and its samples are written to the
\* intermediate file
EdfToRaw(i) ==
    /\ tasks[i].pc = "edf_to_raw"
    /\ IF ~tasks[i].edf.ok \/ tasks[i].edf.n_ch # 19
       THEN /\ tasks' = [tasks EXCEPT ![i] = Aborted(@)]
            /\ fs' = fs
       ELSE /\ fs' = WriteFile(fs, TaskTemp(tasks[i]),
                               << [kind |-> "i16", arr |-> TaskSamples(tasks[i])] >>)
            /\ tasks' = [tasks EXCEPT ![i].raw_file = TaskTemp(tasks[i]),
                                      ![i].pc = "read_raw"]
    /\ UNCHANGED <<last, prev, calls, edf_file, hdr, ret>>

\* convert_raw_to_eeg: os.path.exists(raw_file), then read_int16(raw_file)
ReadRaw(i) ==
    /\ tasks[i].pc = "read_raw"
    /\ tasks' = [tasks EXCEPT ![i] =
                    IF ~fs[tasks[i].raw_file].exists THEN Aborted(@)
                    ELSE [@ EXCEPT !.raw_data = fs[tasks[i].raw_file].data,
                                   !.pc = "read_template"]]
    /\ UNCHANGED <<fs, last, prev, calls, edf_file, hdr, ret>>

\* convert_raw_to_eeg: the template is chosen and read, and the output is
\* composed in memory
ReadTpl(i) ==
    /\ tasks[i].pc = "read_template"
    /\ LET plan == Analyze(fs, tasks[i].raw_data, tasks[i].patient_name)
       IN tasks' = [tasks EXCEPT ![i] =
                       IF plan.error # "none" THEN [Aborted(@) EXCEPT !.plan = plan]
                       ELSE [@ EXCEPT !.plan = plan, !.pc = "write_output"]]
    /\ UNCHANGED <<fs, last, prev, calls, edf_file, hdr, ret>>

\* convert_raw_to_eeg: the output file is opened and written
WriteOut(i) ==
    /\ tasks[i].pc = "write_output"
    /\ fs' = WriteFile(fs, tasks[i].output_file, tasks[i].plan.chunks)
    /\ tasks' = [tasks EXCEPT ![i].pc = "cleanup"]
    /\ UNCHANGED <<last, prev, calls, edf_file, hdr, ret>>

\* if os.path.exists(raw_file): os.remove(raw_file)
RemoveTemp(i) ==
    /\ tasks[i].pc = "cleanup"
    /\ fs' = IF fs[tasks[i].raw_file].exists
             THEN RemoveFile(fs, tasks[i].raw_file) ELSE fs
    /\ tasks' = [tasks EXCEPT ![i].pc = "done", ![i].outcome = "ok"]
    /\ UNCHANGED <<last, prev, calls, edf_file, hdr, ret>>

WriteTempFile == \E i \in DOMAIN tasks : EdfToRaw(i)
ReadTempFile == \E i \in DOMAIN tasks : ReadRaw(i)
ReadTemplateFile == \E i \in DOMAIN tasks : ReadTpl(i)
WriteOutputFile == \E i \in DOMAIN tasks : WriteOut(i)
DeleteTempFile == \E i \in DOMAIN tasks : RemoveTemp(i)

ConcNext ==
    WriteTempFile \/ ReadTempFile \/ ReadTemplateFile \/ WriteOutputFile
    \/ DeleteTempFile

ConcSpec == ConcInit /\ [][ConcNext]_vars

(***************************************************************************)
(* Calls of patch_patient_info and patch_calibration_bytes on 1024-byte    *)
(* headers (specification PatchSpec): the two patches are applied, in any  *)
(* order, to a header and then to what the patch before returned, with one *)
(* patient name.                                                           *)
(***************************************************************************)
\* the 1024-byte headers are the patterns of seeds 0..MaxSeed and three
\* constant ones
MaxSeed == 119

\* the number of patches applied to one header
MaxPatches == 2

FullHeaders ==
    { [j \in 1..HEADER |-> Pat(seed, j - 1)] : seed \in 0..MaxSeed }
    \cup { [j \in 1..HEADER |-> v] : v \in {0, NEW_CALIBRATION_VALUE, 255} }

\* lengths of shorter headers: empty, ending inside and at the end of a name
\* slot, ending inside the calibration bytes, one byte short
ShortLengths == {0, 140, 351, 352, 815, 1023}

PatchHeaders ==
    FullHeaders \cup { [j \in 1..n |-> Pat(7, j - 1)] : n \in ShortLengths }

\* the default name; 33 ASCII characters after one that is not; no
\* character; 31 and 32 ASCII characters; a null character and characters
\* beyond ASCII between letters; no ASCII character at all
PatchNames ==
    Names
    \cup { <<>>, [j \in 1..NAME_CAP |-> 47 + j], [j \in 1..NAME_FIELD |-> 47 + j],
           <<65, 0, 233, 66, 20013, 127, 128>>, <<233, 20013>> }

PatchInit ==
    /\ fs = [p \in Paths |-> NoFile]
    /\ last = NoCall
    /\ prev = NoCall
    /\ calls = 0
    /\ HdrIdle

\* the headers a patch can be handed: any header, or what the patch before
\* returned
PatchArguments == IF ret.op = "none" THEN PatchHeaders ELSE {ret.value}

Applied == IF ret.op = "none" THEN <<>> ELSE ret.applied

\* the patient names of a call: any name, or the name of the calls before
PatchNameChoices ==
    IF ret.op = "none" \/ ret.patient_name = None THEN PatchNames
    ELSE {ret.patient_name[1]}

\* the call has returned value; first is the header the first patch was
\* handed
PatchReturn(op, header_bytes, patient_name, value) ==
    ret' = [op |-> op, header_bytes |-> header_bytes, patient_name |-> patient_name,
            value |-> value,
            first |-> IF ret.op = "none" THEN header_bytes ELSE ret.first,
            applied |-> Append(Applied, op)]

\* UniversalConverter().patch_calibration_bytes(header_bytes)
PatchCalibrationBytes ==
    /\ Len(Applied) < MaxPatches
    /\ \E header_bytes \in PatchArguments :
          PatchReturn("patch_calibration_bytes", header_bytes,
                      IF ret.op = "none" THEN None ELSE ret.patient_name,
                      patch_calibration_bytes(header_bytes))
    /\ UNCHANGED <<edf_file, hdr, fs, last, prev, calls, tasks>>

\* UniversalConverter().patch_patient_info(header_bytes, patient_name)
PatchPatientInfo ==
    /\ Len(Applied) < MaxPatches
    /\ \E header_bytes \in PatchArguments, patient_name \in PatchNameChoices :
          PatchReturn("patch_patient_info", header_bytes, Some(patient_name),
                      patch_patient_info(header_bytes, patient_name))
    /\ UNCHANGED <<edf_file, hdr, fs, last, prev, calls, tasks>>

PatchNext == PatchCalibrationBytes \/ PatchPatientInfo

PatchSpec == PatchInit /\ [][PatchNext]_vars

(***************************************************************************)
(* Claims about convert_raw_to_eeg (specification Spec).                   *)
(***************************************************************************)
Converted == last.op = "convert_raw_to_eeg" /\ last.result = "ok"
\* the bytes of the output file of the last call, and of the template it read
OutBytes == fs[last.output_file].data
TplBytes == last.inputs[last.choice.path].data
\* sample k of the payload that follows a 1024-byte header
PayloadSample(c, k) == I16(ByteAt(c, 1024 + 2 * k), ByteAt(c, 1024 + 2 * k + 1))
RawSamples == BytesLen(last.inputs[last.raw_file].data) \div 2

\* C1: whenever convert_raw_to_eeg returns True, the output file has exactly
\* the total byte length of the template file, for every sample count.
C1_SizeInvariant ==
    Converted => BytesLen(OutBytes) = BytesLen(TplBytes)

\* a conversion of 37 samples (not a multiple of 19) into a large template
C1_Witness ==
    /\ Converted
    /\ RawSamples = 37
    /\ BytesLen(TplBytes) = 1024 + 38 * (1500 + MaxWindow) + 34
    /\ BytesLen(OutBytes) = BytesLen(TplBytes)

\* C2: in the output payload every sample of a frame outside [start, end)
\* equals the template's sample at the same frame and channel, and so does
\* every sample of marker channels 0 and 18, inside the window too.
C2_SpliceFrame ==
    Converted =>
        \A k \in 0..(((BytesLen(TplBytes) - 1058) \div 2) - 1) :
            LET fr == k \div 19
                c == k % 19
            IN (fr < last.start \/ fr >= last.end \/ c \in {0, 18})
                  => PayloadSample(OutBytes, k) = PayloadSample(TplBytes, k)

\* a conversion that replaced a non-empty window: an EEG sample of the
\* window's first frame differs from the template's
C2_Witness ==
    /\ Converted
    /\ last.end > last.start
    /\ \E c \in 1..17 : PayloadSample(OutBytes, last.start * 19 + c)
                          # PayloadSample(TplBytes, last.start * 19 + c)
    /\ PayloadSample(OutBytes, last.start * 19) = PayloadSample(TplBytes, last.start * 19)

NameSlotOffsets == (128..159) \cup (160..191) \cup (192..223) \cup (320..351)
CalibrationPatchOffsets == 807..823

\* C3: re-splitting the output into 1024-byte header, payload and 34-byte
\* trailer gives the template's trailer, and the template's header at every
\* offset outside the patient-name slots and the non-marker calibration
\* offsets.
C3_RoundTrip ==
    Converted =>
        /\ BytesLen(OutBytes) >= 1058
        /\ \A j \in 0..1023 :
              (j \notin NameSlotOffsets /\ j \notin CalibrationPatchOffsets)
                 => ByteAt(OutBytes, j) = ByteAt(TplBytes, j)
        /\ \A j \in 1..34 :
              ByteAt(OutBytes, BytesLen(OutBytes) - j)
                 = ByteAt(TplBytes, BytesLen(TplBytes) - j)

\* a conversion whose header patches changed bytes of both kinds
C3_Witness ==
    /\ Converted
    /\ \E j \in NameSlotOffsets : ByteAt(OutBytes, j) # ByteAt(TplBytes, j)
    /\ \E j \in CalibrationPatchOffsets : ByteAt(OutBytes, j) # ByteAt(TplBytes, j)

SameCall(a, b) ==
    /\ a.op = b.op
    /\ a.raw_file = b.raw_file
    /\ a.output_file = b.output_file
    /\ a.patient_name = b.patient_name
    /\ a.inputs = b.inputs

\* C4: two runs of convert_raw_to_eeg with the same raw file, patient name,
\* output path and template files write byte-identical output files.
C4_Idempotent ==
    (/\ Converted
     /\ prev.op = "convert_raw_to_eeg"
     /\ prev.result = "ok"
     /\ SameCall(last, prev))
        => (last.after = prev.after /\ fs[last.output_file] = prev.after)

\* a second successful run over a template with a non-empty window
C4_Witness ==
    /\ Converted
    /\ prev.op = "convert_raw_to_eeg"
    /\ prev.result = "ok"
    /\ SameCall(last, prev)
    /\ last.end > last.start
    /\ fs[last.output_file] = prev.after

\* C5: choose_template returns the short template for a duration <= 12
\* minutes when it exists, the extended one for a longer duration when it
\* exists, the other one when the preferred one is absent (with a truncation
\* warning when the short one serves a longer duration), and fails with "no
\* template found" exactly when neither exists.
C5_ChooseTemplate ==
    (last.op = "convert_raw_to_eeg" /\ last.choice.called) =>
        LET short == last.choice.edf_frames <= 12 * 60 * 250
            o == last.inputs[ORIGINAL_TEMPLATE].exists
            e == last.inputs[EXTENDED_TEMPLATE].exists
            c == last.choice
        IN /\ (short /\ o) => (c.error = "none" /\ c.path = ORIGINAL_TEMPLATE)
           /\ (~short /\ e) => (c.error = "none" /\ c.path = EXTENDED_TEMPLATE)
           /\ (short /\ ~o /\ e) => (c.error = "none" /\ c.path = EXTENDED_TEMPLATE)
           /\ (~short /\ ~e /\ o) =>
                 (c.error = "none" /\ c.path = ORIGINAL_TEMPLATE
                  /\ "will_truncate" \in c.advice)
           /\ (c.error = "no_template") <=> (~o /\ ~e)

\* a 12-minute-and-one-frame recording served by the short template, the
\* extended one being absent
C5_Witness ==
    /\ last.op = "convert_raw_to_eeg"
    /\ last.choice.called
    /\ last.choice.edf_frames = 12 * 60 * 250 + 1
    /\ ~last.inputs[EXTENDED_TEMPLATE].exists
    /\ last.choice.path = ORIGINAL_TEMPLATE
    /\ "will_truncate" \in last.choice.advice

\* C6: a convert_raw_to_eeg that ends in an error has not opened or written
\* the output file: the path holds what it held before the call.
C6_NoPartialOutput ==
    (last.op = "convert_raw_to_eeg" /\ last.result # "ok") =>
        (last.writes = <<>> /\ fs[last.output_file] = last.before)

\* a conversion that failed while splicing, after every template check passed
C6_Witness ==
    /\ last.op = "convert_raw_to_eeg"
    /\ last.result = "splice_shape"
    /\ ~fs[last.output_file].exists

C7_OutputExists ==
    (last.op = "convert_edf_to_wineeg" /\ last.returned)
        => fs[last.output_file].exists

\* for an output path that contains '.eeg', the output exists and the
\* temporary file is gone
C7_LowerCaseWitness ==
    /\ last.op = "convert_edf_to_wineeg"
    /\ last.returned
    /\ last.output_file = OutLower
    /\ fs[OutLower].exists
    /\ ~fs[TempPath(OutLower)].exists

(***************************************************************************)
(* Claims about EDFHeader.read (specification HdrSpec).                    *)
(***************************************************************************)
HeaderRead == ret.op = "read"
FullPreamble == edf_file.exists /\ Len(edf_file.data) >= 256
\* the channel count as the preamble spells it, an empty field counting as 0
PreambleCount == ParseInt(OrDefault(FieldText(edf_file.data, 252, 256), <<48>>))
CountInRange == FullPreamble /\ PreambleCount.ok /\ PreambleCount.val \in 1..512
CountOutOfRange ==
    FullPreamble /\ PreambleCount.ok /\ (PreambleCount.val <= 0 \/ PreambleCount.val > 512)
\* read failed: it raised, the header is not valid and the error is recorded
ReadFailed ==
    /\ ret.raised
    /\ ~hdr.valid
    /\ Len(hdr.validation_errors) > 0
    /\ hdr.validation_errors[Len(hdr.validation_errors)].kind = "Header read error"

\* C9: read fails, leaves valid False and records the error whenever the
\* file holds fewer than 256 bytes or the channel count of the preamble is
\* <= 0 or > 512; for a count in 1..512 with a full preamble no recorded
\* error is about the channel count or the length of the preamble.
C9_ReadRejects ==
    HeaderRead =>
       /\ (edf_file.exists /\ Len(edf_file.data) < 256) => ReadFailed
       /\ CountOutOfRange => ReadFailed
       /\ CountInRange =>
             \A k \in 1..Len(hdr.validation_errors) :
                hdr.validation_errors[k].cause
                   \notin {"EDF ns invalid", "EDF header too short."}

\* a preamble that announces 513 channels has been read and rejected
C9_Witness ==
    /\ HeaderRead
    /\ FullPreamble
    /\ PreambleCount.ok
    /\ PreambleCount.val = 513
    /\ ReadFailed
    /\ hdr.n_signals = <<513>>

\* the channel fields of the file as read() slices them
FileFields == read_fields(edf_file.data, PreambleCount.val)
IntUnparsable(t) == Strip(t) # <<>> /\ ~ParseInt(t).ok
FloatUnparsable(t) == Strip(t) # <<>> /\ ~ParseFloat(t).ok
SamplesUnparsable ==
    \E i \in 0..(PreambleCount.val - 1) : IntUnparsable(ChannelText(FileFields.samples, i, 8))
RangeUnparsable ==
    \E i \in 0..(PreambleCount.val - 1) :
       \/ FloatUnparsable(ChannelText(FileFields.phys_min, i, 8))
       \/ FloatUnparsable(ChannelText(FileFields.phys_max, i, 8))
       \/ IntUnparsable(ChannelText(FileFields.dig_min, i, 8))
       \/ IntUnparsable(ChannelText(FileFields.dig_max, i, 8))
TimingUnparsable ==
    \/ IntUnparsable(FieldText(edf_file.data, 236, 244))
    \/ FloatUnparsable(FieldText(edf_file.data, 244, 252))

\* C10: when a numeric header field (samples per record, physical or
\* digital minimum or maximum, record count, record duration) cannot be
\* parsed, read does not abort: the header is returned, no fatal error is
\* recorded, a warning is, and every channel is parsed.
C10_ParseFailureIsWarning ==
    (HeaderRead /\ CountInRange
       /\ (SamplesUnparsable \/ RangeUnparsable \/ TimingUnparsable)) =>
       /\ ~ret.raised
       /\ hdr.valid
       /\ hdr.validation_errors = <<>>
       /\ Len(hdr.warnings) > 0
       /\ Len(hdr.labels) = PreambleCount.val
       /\ Len(hdr.samples_per_record) = PreambleCount.val

\* the per-channel arrays of the header that read() fills from the file
PerChannelArrays ==
    << hdr.labels, hdr.transducer, hdr.phys_dim, hdr.phys_min, hdr.phys_max,
       hdr.dig_min, hdr.dig_max, hdr.prefilt, hdr.samples_per_record >>

\* C11: after read has returned with valid = True, every per-channel array
\* (fs_per_channel included) has length n_signals, and fs_per_channel[i] is
\* samples_per_record[i] / duration_record_s when duration_record_s > 0.
C11_ParallelArrays ==
    (ret.op = "read" /\ ~ret.raised /\ hdr.valid) =>
        /\ \A a \in 1..Len(PerChannelArrays) : Len(PerChannelArrays[a]) = hdr.n_signals[1]
        /\ Len(hdr.fs_per_channel[1]) = hdr.n_signals[1]
        /\ hdr.duration_record_s[1].num > 0 =>
              \A i \in 1..Len(hdr.fs_per_channel[1]) :
                 hdr.fs_per_channel[1][i].num * hdr.duration_record_s[1].num
                    = hdr.samples_per_record[i] * hdr.duration_record_s[1].den
                         * hdr.fs_per_channel[1][i].den

\* the fraction n / d as a float
Frac(n, d) == [ok |-> TRUE, num |-> n, den |-> d]
\* the per-channel rates of the header
Rates == hdr.fs_per_channel[1]
RatesAllEqual == \A i \in 1..Len(Rates) : FloatEq(Rates[i], Rates[1])
\* r is a most frequent per-channel rate
IsMode(r) ==
    \E i \in 1..Len(Rates) :
       /\ FloatEq(r, Rates[i])
       /\ \A j \in 1..Len(Rates) : CountOf(Rates, j) <= CountOf(Rates, i)
ScenarioARead == edf_file = [exists |-> TRUE, data |-> ScenarioA]

\* C12: on every valid header common_fs returns (r, True) with r the shared
\* rate when all per-channel rates are equal and (m, False) with m a most
\* frequent rate when they differ; 19 channels of 250 samples per 1.0 s
\* record give (250.0, True).
C12_CommonFs ==
    (ret.op = "common_fs" /\ hdr.valid) =>
        /\ ~ret.raised
        /\ RatesAllEqual =>
              (ret.value[2] = TRUE /\ \A i \in 1..Len(Rates) : FloatEq(ret.value[1], Rates[i]))
        /\ ~RatesAllEqual => (ret.value[2] = FALSE /\ IsMode(ret.value[1]))
        /\ ScenarioARead => (ret.value[2] = TRUE /\ FloatEq(ret.value[1], Frac(250, 1)))

(***************************************************************************)
(* Claims about cross_checks (specification CrossSpec).                    *)
(***************************************************************************)
\* cross_checks has been called and has returned or raised
CrossCalled == ret.op = "cross_checks"
\* it was given a header object that read() had marked valid
HeaderValid == ret.args.edf # None /\ ret.args.edf[1].valid
\* it was given the path of a file that exists
BinaryExists == ret.args.eeg_path # None /\ ret.args.eeg_path[1].exists
\* the checks of the returned report that carry the name
ChecksNamed(name) == SelectSeq(ret.report.checks, LAMBDA c : c.name = name)
SizeChecks == ChecksNamed("EEG binary size matches expected")
\* channel_count * total_samples_per_channel of the header given
TotalSamples ==
    ret.args.edf[1].n_signals[1]
        * ret.args.edf[1].n_records[1] * ret.args.edf[1].samples_per_record[1]
\* the BinaryFormat the sidecar declares, INT_16 without one
DeclaredFormat ==
    IF ret.args.vhdr = None THEN INT_16
    ELSE Upper(Get(ret.args.vhdr[1], "BinaryFormat", INT_16))

\* C13: with a valid header and an existing binary file, the report holds one
\* binary-size check; it passes exactly when the file has
\* channel_count * total_samples_per_channel * bytes_per_sample bytes (2 bytes
\* per sample for INT_16), and it records the expected and the observed size.
C13_BinarySizeCheck ==
    (CrossCalled /\ HeaderValid /\ BinaryExists) =>
        /\ ~ret.raised
        /\ Len(SizeChecks) = 1
        /\ SizeChecks[1].expected_bytes = TotalSamples * SizeChecks[1].bytes_per_sample
        /\ SizeChecks[1].observed_bytes = ret.args.eeg_path[1].size
        /\ SizeChecks[1].pass <=>
              ret.args.eeg_path[1].size = TotalSamples * SizeChecks[1].bytes_per_sample
        /\ DeclaredFormat = INT_16 => SizeChecks[1].bytes_per_sample = 2

\* cross_checks was given a parsed sidecar
VhdrGiven == ret.args.vhdr # None
LabelsEdf == ret.args.edf[1].labels
LabelsVhdr == LabelsOf(ret.args.vhdr[1])
\* the same labels as sets, compared without case
SameLabelSet == UpperSet(LabelsVhdr) = UpperSet(LabelsEdf)
\* the same labels, once each, in a different order
Reordered ==
    /\ SameLabelSet
    /\ Len(LabelsVhdr) = Len(LabelsEdf)
    /\ Cardinality(UpperSet(LabelsEdf)) = Len(LabelsEdf)
    /\ UpperAll(LabelsVhdr) # UpperAll(LabelsEdf)
LabelChecks == ChecksNamed("Channel labels set match")
OrderAdvice ==
    \E k \in 1..Len(ret.report.advice) :
       ret.report.advice[k].msg = "Channel labels are same set but different order"

\* C14: with a valid header and a sidecar, labels that are the same set in a
\* different order give one label-set check, which passes, and the advice on
\* the order; label sets that differ give one label-set check, which fails.
C14_LabelSetCheck ==
    (CrossCalled /\ HeaderValid /\ VhdrGiven) =>
        /\ Reordered =>
              /\ ~ret.raised
              /\ Len(LabelChecks) = 1
              /\ LabelChecks[1].pass
              /\ OrderAdvice
        /\ ~SameLabelSet =>
              /\ ~ret.raised
              /\ Len(LabelChecks) = 1
              /\ ~LabelChecks[1].pass


\* C15: every call of cross_checks returns a report whose summary.confidence
\* lies in [0, 1] and whose summary.base_confidence is checks_passed /
\* checks_total, 0 when there is no check (the summary holds thousandths).
C15_ConfidenceRange ==
    CrossCalled =>
        /\ ~ret.raised
        /\ ret.report.summary.confidence \in 0..1000
        /\ ret.report.summary.checks_total = Len(ret.report.checks)
        /\ ret.report.summary.checks_passed = Passed(ret.report.checks)
        /\ ret.report.summary.base_confidence * ret.report.summary.checks_total
              = 1000 * ret.report.summary.checks_passed


\* the tiers from worst to best, and the lower threshold, in hundredths, of
\* each tier above the worst
Tiers == << "CRITICAL", "POOR", "FAIR", "GOOD", "VERY_GOOD", "EXCELLENT" >>
LowerThresholds == << 40, 60, 75, 85, 95 >>
\* the number of thresholds the confidence has reached
Reached(final) ==
    Cardinality({k \in 1..Len(LowerThresholds) : 100 * final >= LowerThresholds[k] * UNIT})

\* C16: every report carries one assessment, the tier that many places above
\* CRITICAL as the final confidence has reached thresholds among 0.40, 0.60,
\* 0.75, 0.85 and 0.95 (each inclusive), hence a non-decreasing function of
\* the final confidence.
C16_AssessmentTiers ==
    (CrossCalled /\ ~ret.raised) =>
        ret.report.summary.assessment = Tiers[Reached(ret.final_confidence) + 1]

\* a report whose final confidence is exactly 0.75 is assessed GOOD
C16_Witness ==
    /\ CrossCalled
    /\ ~ret.raised
    /\ 100 * ret.final_confidence = 75 * UNIT
    /\ ret.report.summary.assessment = "GOOD"


\* the names of the checks that need the sidecar, and of those that need the
\* markers
VhdrCheckNames ==
    { "FS match (EDF vs VHDR)", "N channels match (EDF vs VHDR)",
      "Orientation MULTIPLEXED", "DataFormat BINARY", "Channel labels set match" }
VmrkCheckNames == { "VMRK has start marker", "VMRK has end marker" }
\* the report holds no check with one of the names
NoCheckNamed(names) ==
    \A k \in 1..Len(ret.report.checks) : ret.report.checks[k].name \notin names

\* C17: a call without the sidecar, without the markers or without an
\* existing binary file returns a report, and the report holds none of the
\* checks that need what is absent.
C17_AbsentInputsSkipChecks ==
    (CrossCalled /\ (~VhdrGiven \/ ret.args.vmrk = None \/ ~BinaryExists)) =>
        /\ ~ret.raised
        /\ ~VhdrGiven => NoCheckNamed(VhdrCheckNames)
        /\ ret.args.vmrk = None => NoCheckNamed(VmrkCheckNames)
        /\ ~BinaryExists => NoCheckNamed({"EEG binary size matches expected"})


\* the report holds an entry with the message in the list
Recorded(list, msg) == \E k \in 1..Len(list) : list[k].msg = msg
\* the report holds a check of that name, and every such check has failed
Failed(name) ==
    /\ Len(ChecksNamed(name)) > 0
    /\ \A k \in 1..Len(ChecksNamed(name)) : ~ChecksNamed(name)[k].pass
\* the sidecar's sampling interval is zero or missing
NoInterval == Get(ret.args.vhdr[1], "SamplingInterval_us", FloatOfInt(0)).num = 0
\* the sidecar's channel count is missing or is not the header's
CountMismatch ==
    \/ "NumberOfChannels" \notin DOMAIN ret.args.vhdr[1]
    \/ ret.args.vhdr[1].NumberOfChannels # ret.args.edf[1].n_signals[1]

\* C18: given a header that read() has parsed, cross_checks returns a report
\* whatever the sidecar holds, and the report records each finding: a zero or
\* missing sampling interval as a critical issue, an empty channel list as a
\* warning, a missing or different channel count and different labels as
\* failed checks.
C18_NeverRaises ==
    (CrossCalled /\ HeaderValid) =>
        /\ ~ret.raised
        /\ VhdrGiven =>
              /\ NoInterval =>
                    Recorded(ret.report.critical_issues, "VHDR: Invalid sampling interval")
              /\ Len(LabelsVhdr) = 0 =>
                    Recorded(ret.report.warnings, "VHDR: No channel labels defined")
              /\ CountMismatch => Failed("N channels match (EDF vs VHDR)")
              /\ ~SameLabelSet => Failed("Channel labels set match")


(***************************************************************************)
(* Claims about concurrent conversions (specification ConcSpec).           *)
(***************************************************************************)
\* what is found at a path: whether the file exists, its size, its header
\* and the frames of the replacement window that can hold samples of a
\* recording of the model (every other byte of an output file is a byte of
\* the template)
Produced(fsys, path) ==
    IF ~fsys[path].exists THEN [exists |-> FALSE, size |-> 0, bytes |-> <<>>]
    ELSE [exists |-> TRUE, size |-> BytesLen(fsys[path].data),
          bytes |-> Explicit(fsys[path].data, 0, HEADER)
                    \o Explicit(fsys[path].data, HEADER + HEAD_FRAMES * FRAME,
                                HEADER + (HEAD_FRAMES + MaxTimes) * FRAME)]

Done(i) == tasks[i].pc = "done"

\* the two tasks use one intermediate file
SharedTemp == TaskTemp(tasks[1]) = TaskTemp(tasks[2])

\* C19: two concurrent conversions of different recordings to different
\* output files do not interfere: whatever the interleaving of their file
\* operations, a conversion that has ended has produced at its output path
\* exactly what it produces when it runs alone.
C19_NoInterference ==
    \A i \in DOMAIN tasks :
        Done(i) => Produced(fs, tasks[i].output_file)
                   = Produced(RunAlone(ConcFs, tasks[i]).fs, tasks[i].output_file)


(***************************************************************************)
(* Claims about patch_calibration_bytes (specification PatchSpec).         *)
(***************************************************************************)
Patched == ret.op = "patch_calibration_bytes"

\* the byte at a header offset (offsets count from 0)
At(header, offset) == header[offset + 1]

\* 0x0326 + i for the channels i in 1..17
EegOffsets == { 806 + i : i \in 1..17 }

\* 0x0326 (channel 0) and 0x0338 (channel 18)
MarkerOffsets == {806, 824}

\* C20: patch_calibration_bytes applied to a 1024-byte header returns a
\* header of the same length in which the byte at each offset 0x0326 + i,
\* i in 1..17, is 1, the bytes at the marker offsets 0x0326 and 0x0338 are
\* those of the argument, and so is every other byte.
C20_CalibrationFrame ==
    (Patched /\ Len(ret.header_bytes) = 1024) =>
        /\ Len(ret.value) = Len(ret.header_bytes)
        /\ \A offset \in EegOffsets : At(ret.value, offset) = 1
        /\ \A offset \in MarkerOffsets :
              At(ret.value, offset) = At(ret.header_bytes, offset)
        /\ \A offset \in (0..1023) \ (EegOffsets \cup MarkerOffsets) :
              At(ret.value, offset) = At(ret.header_bytes, offset)

\* a header none of whose calibration and marker bytes is 1 has been patched
C20_Witness ==
    /\ Patched
    /\ Len(ret.header_bytes) = 1024
    /\ \A offset \in EegOffsets \cup MarkerOffsets : At(ret.header_bytes, offset) # 1
    /\ \A offset \in EegOffsets : At(ret.value, offset) = 1
    /\ \A offset \in MarkerOffsets : At(ret.value, offset) # 1


(***************************************************************************)
(* Claims about patch_patient_info (specification PatchSpec).              *)
(***************************************************************************)
NamePatched == ret.op = "patch_patient_info"

\* 0x0080, 0x00A0, 0x00C0, 0x0140
SlotOffsets == {128, 160, 192, 320}

InSlot(offset) == \E slot \in SlotOffsets : slot <= offset /\ offset < slot + 32

\* the ASCII characters of a name, in order
AsciiOf(name) == SelectSeq(name, LAMBDA ch : ch < 128)

\* byte j (from 0) of the 32-byte field of a name
FieldByte(name, j) ==
    IF j < 31 /\ j < Len(AsciiOf(name)) THEN AsciiOf(name)[j + 1] ELSE 0

\* C21: patch_patient_info applied to a 1024-byte header and a patient name
\* returns a header of the same length whose four slots at 0x0080, 0x00A0,
\* 0x00C0 and 0x0140 each hold the same 32 bytes: the ASCII characters of
\* the name (the others dropped), at most 31 of them, then null bytes, so
\* that the last byte of a slot is null; no byte outside the slots changes.
C21_PatientField ==
    (NamePatched /\ Len(ret.header_bytes) = 1024) =>
        /\ Len(ret.value) = Len(ret.header_bytes)
        /\ \A slot \in SlotOffsets :
              /\ \A j \in 0..31 :
                    At(ret.value, slot + j) = FieldByte(ret.patient_name[1], j)
              /\ At(ret.value, slot + 31) = 0
        /\ \A offset \in 0..1023 :
              ~InSlot(offset) => At(ret.value, offset) = At(ret.header_bytes, offset)

\* a name of more than 31 ASCII characters and one that is not has been
\* written over slots that held no null byte
C21_Witness ==
    /\ NamePatched
    /\ Len(ret.header_bytes) = 1024
    /\ Len(AsciiOf(ret.patient_name[1])) > 31
    /\ Len(AsciiOf(ret.patient_name[1])) < Len(ret.patient_name[1])
    /\ \A offset \in 0..1023 : InSlot(offset) => At(ret.header_bytes, offset) # 0
    /\ \A slot \in SlotOffsets :
          /\ At(ret.value, slot + 30) = AsciiOf(ret.patient_name[1])[31]
          /\ At(ret.value, slot + 31) = 0


(***************************************************************************)
(* Claims about the two patches together (specification PatchSpec).        *)
(***************************************************************************)
PATIENT_THEN_CALIBRATION == <<"patch_patient_info", "patch_calibration_bytes">>
CALIBRATION_THEN_PATIENT == <<"patch_calibration_bytes", "patch_patient_info">>

\* the two patches applied to header in the order that is not the order of
\* the calls
OppositeOrder(order, header, patient_name) ==
    IF order = PATIENT_THEN_CALIBRATION
    THEN patch_patient_info(patch_calibration_bytes(header), patient_name)
    ELSE patch_calibration_bytes(patch_patient_info(header, patient_name))

\* the last two calls applied the same patch
Repeated ==
    /\ ret.op # "none"
    /\ Len(ret.applied) >= 2
    /\ ret.applied[Len(ret.applied)] = ret.applied[Len(ret.applied) - 1]

\* the two patches have been applied to a header, one after the other
BothApplied ==
    /\ ret.op # "none"
    /\ ret.applied \in {PATIENT_THEN_CALIBRATION, CALIBRATION_THEN_PATIENT}

\* C22: the identity patch and the calibration patch are independent and
\* composable: for every header and patient name, the header that
\* patch_patient_info then patch_calibration_bytes return is the header they
\* return in the opposite order, and a patch applied a second time returns
\* its argument unchanged.
C22_PatchesCommute ==
    /\ BothApplied =>
          ret.value = OppositeOrder(ret.applied, ret.first, ret.patient_name[1])
    /\ Repeated => ret.value = ret.header_bytes

\* the two patches have been applied, name first, to a 1024-byte header
\* both change
C22_Witness ==
    /\ BothApplied
    /\ ret.applied = PATIENT_THEN_CALIBRATION
    /\ Len(ret.first) = 1024
    /\ ret.header_bytes # ret.first
    /\ ret.value # ret.header_bytes
    /\ ret.value = OppositeOrder(ret.applied, ret.first, ret.patient_name[1])


(***************************************************************************)
(* Claims about the replacement window of convert_raw_to_eeg               *)
(* (specification Spec).                                                   *)
(***************************************************************************)
\* the last call read a template that passed the split checks, and so
\* computed a window
Windowed ==
    /\ last.op = "convert_raw_to_eeg"
    /\ last.result \in {"ok", "splice_shape", "size_mismatch"}

\* template_frame_count and source_frame_count of the last call
TemplateFrames == (BytesLen(TplBytes) - 1024 - 34) \div 38
SourceFrames == RawSamples \div 19
FramesToSplice ==
    IF TemplateFrames - 1250 - 250 < SourceFrames
    THEN TemplateFrames - 1250 - 250 ELSE SourceFrames

\* C23: convert_raw_to_eeg computes the window as frames_to_splice =
\* min(template_frame_count - 1250 - 250, source_frame_count), start = 1250,
\* end = 1250 + frames_to_splice, with source_frame_count = floor(sample
\* count / 19); when frames_to_splice < source_frame_count the 'data
\* truncated' advisory is emitted and the conversion still completes
\* successfully.
C23_Window ==
    Windowed =>
        /\ Converted =>
              /\ last.choice.edf_frames = SourceFrames
              /\ last.frames_to_use = FramesToSplice
              /\ last.start = 1250
              /\ last.end = 1250 + FramesToSplice
              /\ ("truncated" \in last.advice) <=> (FramesToSplice < SourceFrames)
        /\ (FramesToSplice < SourceFrames) => Converted


\* sample k of the raw file of the last call
SourceSample(k) ==
    I16(ByteAt(last.inputs[last.raw_file].data, 2 * k),
        ByteAt(last.inputs[last.raw_file].data, 2 * k + 1))

\* C24: in the output payload of a successful convert_raw_to_eeg, for every
\* i with 0 <= i < frames_to_splice and every channel c in 1..17, the sample
\* at frame start + i, channel c is the source sample at frame i, channel c:
\* the first frames_to_splice source frames are written in order; the frame
\* that follows the window holds no source frame.
C24_SplicedSamples ==
    Converted =>
        /\ \A i \in 0..(last.frames_to_use - 1), c \in 1..17 :
              PayloadSample(OutBytes, (last.start + i) * 19 + c)
                 = SourceSample(i * 19 + c)
        /\ \A c \in 0..18 :
              (last.frames_to_use >= 0) =>
                 PayloadSample(OutBytes, last.end * 19 + c)
                    = PayloadSample(TplBytes, last.end * 19 + c)

\* a source of more frames than the window holds has been spliced into a
\* window of at least two frames: samples of the second source frame are in
\* the output, where the template held other values
C24_Witness ==
    /\ Converted
    /\ last.frames_to_use >= 2
    /\ SourceFrames > last.frames_to_use
    /\ \E c \in 1..17 :
          /\ PayloadSample(OutBytes, (last.start + 1) * 19 + c) = SourceSample(19 + c)
          /\ PayloadSample(OutBytes, (last.start + 1) * 19 + c)
                # PayloadSample(TplBytes, (last.start + 1) * 19 + c)
          /\ SourceSample(19 + c) # SourceSample(c)


(***************************************************************************)
(* Claims about the raw sample stream of convert_edf_to_wineeg             *)
(* (specification EdfSpec).                                                *)
(***************************************************************************)
\* the last call decoded a 19-channel recording, wrote its raw sample
\* stream to the temporary file and left the file behind
StreamLeft ==
    /\ last.op = "convert_edf_to_wineeg"
    /\ last.decoded.ok
    /\ last.decoded.n_ch = 19
    /\ last.result # "ok"
    /\ fs[last.raw_file].exists

\* the value at index k of the stream in the temporary file
StreamSample(k) ==
    I16(ByteAt(fs[last.raw_file].data, 2 * k), ByteAt(fs[last.raw_file].data, 2 * k + 1))

\* C25: the raw sample stream convert_edf_to_wineeg builds from a decoded
\* array of 19 channels by N samples is frame-interleaved: it has 19 * N
\* values, and the (scaled) value of channel c at time sample t is at index
\* t * 19 + c, the layout of the GUI's transpose-then-flatten.
C25_FrameInterleaved ==
    StreamLeft =>
        /\ BytesLen(fs[last.raw_file].data) = 2 * 19 * last.decoded.n_times
        /\ \A t \in 0..(last.decoded.n_times - 1), c \in 0..18 :
              StreamSample(t * 19 + c) = ScaleClipCast(Volts14(last.decoded, c, t))


\* the last call decoded a recording that does not have 19 channels
WrongChannelCount ==
    /\ last.op = "convert_edf_to_wineeg"
    /\ last.decoded.ok
    /\ last.decoded.n_ch # 19

\* C26: when the recording does not have exactly 19 channels,
\* convert_edf_to_wineeg reports failure and has written no file: no
\* temporary raw sample file and no output file has been created, and no
\* path holds anything but what it held before the call.
C26_WrongChannelsNoFile ==
    WrongChannelCount =>
        /\ ~last.returned
        /\ last.writes = <<>>
        /\ fs[last.raw_file] = last.inputs[last.raw_file]
        /\ fs[last.output_file] = last.before
        /\ ~fs[last.raw_file].exists
        /\ ~fs[last.output_file].exists
        /\ \A p \in TemplatePaths : fs[p] = last.inputs[p]

\* a recording of 20 channels was refused although a template that would
\* have served it is present
C26_Witness ==
    /\ WrongChannelCount
    /\ last.decoded.n_ch = 20
    /\ fs[ORIGINAL_TEMPLATE].exists
    /\ BytesLen(fs[ORIGINAL_TEMPLATE].data) >= 1024 + 38 * 1500 + 34
    /\ ~last.returned
    /\ ~fs[last.output_file].exists
    /\ ~fs[last.raw_file].exists


(***************************************************************************)
(* Claims about the bounds of the replacement window (specification Spec). *)
(***************************************************************************)
\* the frames the truncation advisory reports as lost:
\* edf_frames - frames_to_use
LostFrames == SourceFrames - FramesToSplice

\* C27: for every template that passes the split checks (templates of
\* fewer than 1500 payload frames too) and every source frame count, the
\* window has 0 <= frames_to_splice and 1250 <= end <= template_frame_count
\* - 250, so the splice leaves the head and tail frames alone, and the lost
\* duration reported is never more than the source duration.
C27_WindowBounds ==
    Windowed =>
        /\ 0 <= FramesToSplice
        /\ 1250 <= 1250 + FramesToSplice
        /\ 1250 + FramesToSplice <= TemplateFrames - 250
        /\ LostFrames <= SourceFrames
        /\ Converted => (0 <= last.frames_to_use /\ 1250 <= last.end)


(***************************************************************************)
(* Claims about the temporary file of convert_edf_to_wineeg                *)
(* (specification EdfSpec).                                                *)
(***************************************************************************)
\* the last call decoded a 19-channel recording, and so wrote its temporary
\* raw sample file
TempWritten ==
    /\ last.op = "convert_edf_to_wineeg"
    /\ last.decoded.ok
    /\ last.decoded.n_ch = 19

\* C28: on every exit path of a conversion that has written its temporary
\* raw sample file, whether it returns True or False, the temporary file
\* has been deleted when the conversion ends.
C28_TempDeleted ==
    TempWritten => ~fs[last.raw_file].exists


(***************************************************************************)
(* Claims about signal QC and the confidence (specification CrossSpec).    *)
(***************************************************************************)
Returned == CrossCalled /\ ~ret.raised

\* the caller has attached a passed signal QC to the report
QcAttached == Returned /\ ret.report.signal_qc # None

\* base_confidence + clinical_bonus - 0.25 * critical issues - 0.03 *
\* warnings of the report returned, in units of 1 / UNIT
PlainConfidence ==
    (IF Len(ret.report.checks) = 0 THEN 0
     ELSE (UNIT * Cardinality({k \in 1..Len(ret.report.checks) :
                                  ret.report.checks[k].pass}))
          \div Len(ret.report.checks))
    + ClinicalBonus(ret.report.clinical_validation)
    - (25 * UNIT * Len(ret.report.critical_issues)) \div 100
    - (3 * UNIT * Len(ret.report.warnings)) \div 100

Clamped(x) == IF x < 0 THEN 0 ELSE IF x > UNIT THEN UNIT ELSE x

GeneratedGiven ==
    /\ CrossCalled
    /\ HeaderValid
    /\ VhdrGiven
    /\ ret.args.vhdr[1] \in { parse_vhdr(cfg) : cfg \in Generated(ret.args.edf[1]) }

FsChecks == ChecksNamed("FS match (EDF vs VHDR)")

\* the sampling interval of the sidecar given, in microseconds
IntervalGiven == ret.args.vhdr[1].SamplingInterval_us

\* C30: for every valid header with a positive common sampling rate, the
\* sidecar create_brainvision_header generates from it (interval =
\* 1,000,000 / rate rounded to whole microseconds) passes the sampling-rate
\* check of cross_checks against the same header.
C30_GeneratedSidecarPassesFs ==
    GeneratedGiven =>
        /\ ~ret.raised
        /\ Len(FsChecks) = 1
        /\ FsChecks[1].pass

====
